---------------------------- MODULE Spec2Model ----------------------------
(***************************************************************************)
(* Ultimate Tic-Tac-Toe (vakarthi/Ultimate-TTT): the rules engine          *)
(* (utils/gameLogic), the move transition and match coordinator            *)
(* (components/Game.tsx) and the peer channel (utils/peerService.ts).      *)
(*                                                                         *)
(* Two instances of the Game component are modelled, "h" and "g".  In an   *)
(* online match "h" is the instance that hosted and "g" the one that       *)
(* joined.  Offline play (PvP, PvCPU) is explored on "h" only: "g" runs    *)
(* the same program and is driven only while it is the remote peer.        *)
(***************************************************************************)
EXTENDS Integers, Sequences, FiniteSets, TLC

VARIABLES
    gameState,    \* [Inst -> GameState]: useState<GameState> of each instance
    lastMove,     \* [Inst -> <<>> | <<board, cell>>]: useState lastMove
    onlineState,  \* [Inst -> OnlineState]
    onlineRole,   \* [Inst -> "HOST" | "GUEST" | "null"]
    peerService,  \* [Inst -> [conn, onDataLastMove]]: the peerService singleton
    net,          \* [Inst -> Seq(message)]: messages in flight TO the instance
    last,         \* the handler that ran last, the cell it was about and the
                  \* branch it returned by
    ply,          \* moves, undos, new matches and saves originated since Init
    probe,        \* input and output of a rules-engine function under test,
                  \* and the gameState and lastMove each instance saved last
    localStorage, \* [Inst -> <<>> | <<text>>]: the browser's item under SAVE_KEY
    aiTimer       \* [Inst -> <<>> | <<gameState>>]: the pending timer of the AI
                  \* effect, with the gameState its callback closed over

vars == <<gameState, lastMove, onlineState, onlineRole, peerService, net,
          last, ply, probe, localStorage, aiTimer>>

-----------------------------------------------------------------------------
(* Values *)

X == "X"
O == "O"
Null == "null"
NoIndex == -1
NoMove == <<>>
Idx == 0 .. 8
Inst == {"h", "g"}
Other(p) == IF p = "h" THEN "g" ELSE "h"

-----------------------------------------------------------------------------
(* Rules engine: utils/gameLogic *)

WINNING_COMBINATIONS ==
    << <<0, 1, 2>>, <<3, 4, 5>>, <<6, 7, 8>>,
       <<0, 3, 6>>, <<1, 4, 7>>, <<2, 5, 8>>,
       <<0, 4, 8>>, <<2, 4, 6>> >>

\* The `for (const combo of WINNING_COMBINATIONS)` loop of
\* checkSmallBoardStatus, from combination i on: the mark of the first
\* combination whose three cells are equal and truthy, else Null.
RECURSIVE SmallBoardScan(_, _)
SmallBoardScan(cells, i) ==
    IF i > Len(WINNING_COMBINATIONS) THEN Null
    ELSE LET a == WINNING_COMBINATIONS[i][1]
             b == WINNING_COMBINATIONS[i][2]
             c == WINNING_COMBINATIONS[i][3]
         IN IF cells[a] # Null /\ cells[a] = cells[b] /\ cells[a] = cells[c]
            THEN cells[a]
            ELSE SmallBoardScan(cells, i + 1)

\* A faulty variant: a full board without a line is not reported as drawn.
checkSmallBoardStatusNoDraw(cells) ==
    [winner |-> SmallBoardScan(cells, 1), isDraw |-> FALSE]

\* A faulty variant: the full-board test made before the search for a line.
checkSmallBoardStatusDrawFirst(cells) ==
    IF \A i \in Idx : cells[i] # Null THEN [winner |-> Null, isDraw |-> TRUE]
    ELSE [winner |-> SmallBoardScan(cells, 1), isDraw |-> FALSE]

checkSmallBoardStatus(cells) ==
    LET w == SmallBoardScan(cells, 1)
        isFull == \A i \in Idx : cells[i] # Null
    IN IF w # Null THEN [winner |-> w, isDraw |-> FALSE]
       ELSE IF isFull THEN [winner |-> Null, isDraw |-> TRUE]
       ELSE [winner |-> Null, isDraw |-> FALSE]

\* The same loop in checkGlobalWinner, over the statuses' winners.
RECURSIVE GlobalScan(_, _)
GlobalScan(statuses, i) ==
    IF i > Len(WINNING_COMBINATIONS) THEN Null
    ELSE LET statA == statuses[WINNING_COMBINATIONS[i][1]]
             statB == statuses[WINNING_COMBINATIONS[i][2]]
             statC == statuses[WINNING_COMBINATIONS[i][3]]
         IN IF statA.winner # Null /\ statA.winner = statB.winner
               /\ statA.winner = statC.winner
            THEN statA.winner
            ELSE GlobalScan(statuses, i + 1)

\* A faulty variant: only won boards count as decided for the draw.
checkGlobalWinnerWonOnly(statuses) ==
    LET w == GlobalScan(statuses, 1)
        allWon == \A i \in Idx : statuses[i].winner # Null
    IN IF w # Null THEN [winner |-> w, isDraw |-> FALSE]
       ELSE IF allWon THEN [winner |-> Null, isDraw |-> TRUE]
       ELSE [winner |-> Null, isDraw |-> FALSE]

checkGlobalWinner(statuses) ==
    LET w == GlobalScan(statuses, 1)
        allDecided == \A i \in Idx : statuses[i].winner # Null \/ statuses[i].isDraw
    IN IF w # Null THEN [winner |-> w, isDraw |-> FALSE]
       ELSE IF allDecided THEN [winner |-> Null, isDraw |-> TRUE]
       ELSE [winner |-> Null, isDraw |-> FALSE]

createInitialBoard == [b \in Idx |-> [c \in Idx |-> Null]]

createInitialStatuses == [b \in Idx |-> [winner |-> Null, isDraw |-> FALSE]]

\* `status.winner || status.isDraw`
Decided(status) == status.winner # Null \/ status.isDraw

\* A faulty variant of TargetBoards: a set nextBoardIndex is taken as it is.
TargetBoardsNoFallback(gs) ==
    IF gs.nextBoardIndex # NoIndex
    THEN <<gs.nextBoardIndex>>
    ELSE <<0, 1, 2, 3, 4, 5, 6, 7, 8>>

\* getValidMoves, as the sequence it builds: boards ascending, cells ascending.
TargetBoards(gs) ==
    IF gs.nextBoardIndex # NoIndex
    THEN IF ~Decided(gs.smallBoardStatuses[gs.nextBoardIndex])
         THEN <<gs.nextBoardIndex>>
         ELSE <<0, 1, 2, 3, 4, 5, 6, 7, 8>>
    ELSE <<0, 1, 2, 3, 4, 5, 6, 7, 8>>

RECURSIVE EmptyCellsFrom(_, _, _)
EmptyCellsFrom(gs, bIdx, cIdx) ==
    IF cIdx > 8 THEN <<>>
    ELSE (IF gs.board[bIdx][cIdx] = Null
          THEN << [boardIndex |-> bIdx, cellIndex |-> cIdx] >>
          ELSE <<>>) \o EmptyCellsFrom(gs, bIdx, cIdx + 1)

RECURSIVE MovesOfBoards(_, _, _)
MovesOfBoards(gs, targetBoards, k) ==
    IF k > Len(targetBoards) THEN <<>>
    ELSE (IF ~Decided(gs.smallBoardStatuses[targetBoards[k]])
          THEN EmptyCellsFrom(gs, targetBoards[k], 0)
          ELSE <<>>) \o MovesOfBoards(gs, targetBoards, k + 1)

\* A faulty variant of getValidMoves: without the test of globalWinner.
getValidMovesAfterWin(gs) == MovesOfBoards(gs, TargetBoards(gs), 1)

getValidMoves(gs) ==
    IF gs.globalWinner # Null THEN <<>>
    ELSE MovesOfBoards(gs, TargetBoards(gs), 1)

-----------------------------------------------------------------------------
(* Game state: components/Game.tsx *)

\* The object resetGameState installs (and useState's initial value, with
\* mode 'PvP' and difficulty 'Beginner').
FreshGameState(mode, difficulty) ==
    [ board              |-> createInitialBoard,
      smallBoardStatuses |-> createInitialStatuses,
      currentPlayer      |-> X,
      nextBoardIndex     |-> NoIndex,
      globalWinner       |-> Null,
      isGlobalDraw       |-> FALSE,
      history            |-> <<>>,
      moveCount          |-> 0,
      gameMode           |-> mode,
      aiDifficulty       |-> difficulty ]

\* `onlineRole === 'HOST' ? Player.X : Player.O`
myPlayer(role) == IF role = "HOST" THEN X ELSE O

\* Two faulty variants of StructuralCheck: one without the test of the
\* target cell, one without the test of globalWinner.
StructuralCheckNoOccupied(prevState, boardIndex, cellIndex) ==
    IF prevState.globalWinner # Null
    THEN "gameOver"
    ELSE IF prevState.nextBoardIndex # NoIndex /\ prevState.nextBoardIndex # boardIndex
    THEN "wrongBoard"
    ELSE IF Decided(prevState.smallBoardStatuses[boardIndex])
    THEN "boardDecided"
    ELSE "applied"

StructuralCheckNoGameOver(prevState, boardIndex, cellIndex) ==
    IF prevState.board[boardIndex][cellIndex] # Null
    THEN "occupied"
    ELSE IF prevState.nextBoardIndex # NoIndex /\ prevState.nextBoardIndex # boardIndex
    THEN "wrongBoard"
    ELSE IF Decided(prevState.smallBoardStatuses[boardIndex])
    THEN "boardDecided"
    ELSE "applied"

\* A faulty variant of StructuralCheck without the test of the target
\* board's status.
StructuralCheckNoDecided(prevState, boardIndex, cellIndex) ==
    IF prevState.globalWinner # Null
    THEN "gameOver"
    ELSE IF prevState.board[boardIndex][cellIndex] # Null
    THEN "occupied"
    ELSE IF prevState.nextBoardIndex # NoIndex /\ prevState.nextBoardIndex # boardIndex
    THEN "wrongBoard"
    ELSE "applied"

\* handleCellClick's "Validation": the check that returns prevState, or
\* "applied" when none does.
StructuralCheck(prevState, boardIndex, cellIndex) ==
    IF prevState.globalWinner # Null
    THEN "gameOver"
    ELSE IF prevState.board[boardIndex][cellIndex] # Null
    THEN "occupied"
    ELSE IF prevState.nextBoardIndex # NoIndex /\ prevState.nextBoardIndex # boardIndex
    THEN "wrongBoard"
    ELSE IF Decided(prevState.smallBoardStatuses[boardIndex])
    THEN "boardDecided"
    ELSE "applied"

\* A faulty variant of Validation: the turn rule applied to remote moves too.
ValidationAnySource(prevState, role, boardIndex, cellIndex, isRemote) ==
    IF /\ prevState.gameMode = "PvOnline"
       /\ prevState.currentPlayer # myPlayer(role)
    THEN "notMyTurn"
    ELSE IF prevState.globalWinner # Null
    THEN "gameOver"
    ELSE IF prevState.board[boardIndex][cellIndex] # Null
    THEN "occupied"
    ELSE IF prevState.nextBoardIndex # NoIndex /\ prevState.nextBoardIndex # boardIndex
    THEN "wrongBoard"
    ELSE IF Decided(prevState.smallBoardStatuses[boardIndex])
    THEN "boardDecided"
    ELSE "applied"

\* All the checks handleCellClick's updater makes before it changes anything:
\* "Enforce online turn rules", then "Validation".
Validation(prevState, role, boardIndex, cellIndex, isRemote) ==
    IF /\ prevState.gameMode = "PvOnline"
       /\ ~isRemote
       /\ prevState.currentPlayer # myPlayer(role)
    THEN "notMyTurn"
    ELSE StructuralCheck(prevState, boardIndex, cellIndex)

\* A faulty variant of NextBoard: the opponent is sent to the cell's board
\* whatever its status.
NextBoardAlwaysCell(newSmallBoardStatuses, cellIndex) == cellIndex

\* "4. Determine Next Board": the cell's index, or null when that board is
\* won or full in the statuses given.
NextBoard(newSmallBoardStatuses, cellIndex) ==
    IF Decided(newSmallBoardStatuses[cellIndex]) THEN NoIndex ELSE cellIndex

\* A faulty variant of NextPlayer: the turn does not pass.
NextPlayerSame(currentPlayer) == currentPlayer

\* `currentPlayer === Player.X ? Player.O : Player.X`
NextPlayer(currentPlayer) == IF currentPlayer = X THEN O ELSE X

\* A faulty variant of MoveMessage: remote moves are sent on as well.
MoveMessageAnySource(prevState, boardIndex, cellIndex, isRemote) ==
    IF prevState.gameMode = "PvOnline"
    THEN << [type |-> "MOVE", boardIndex |-> boardIndex, cellIndex |-> cellIndex] >>
    ELSE <<>>

\* "Side effect: If online and move was local, send it": what is handed to
\* peerService.send.
MoveMessage(prevState, boardIndex, cellIndex, isRemote) ==
    IF prevState.gameMode = "PvOnline" /\ ~isRemote
    THEN << [type |-> "MOVE", boardIndex |-> boardIndex, cellIndex |-> cellIndex] >>
    ELSE <<>>

\* The updater handleCellClick hands to setGameState, with what it does
\* besides: `sent` the message given to peerService.send, `result` the
\* branch it returned by.  closureLastMove is the lastMove the callback
\* closed over (it is stored in the history item).
Rejected(prevState, why) ==
    [state |-> prevState, sent |-> <<>>, result |-> why]

handleCellClick(prevState, role, closureLastMove, boardIndex, cellIndex, isRemote) ==
    IF Validation(prevState, role, boardIndex, cellIndex, isRemote) # "applied"
    THEN Rejected(prevState, Validation(prevState, role, boardIndex, cellIndex, isRemote))
    ELSE
      LET currentPlayer == prevState.currentPlayer
          newBoard == [prevState.board EXCEPT ![boardIndex][cellIndex] = currentPlayer]
          newSmallBoardStatus == checkSmallBoardStatus(newBoard[boardIndex])
          newSmallBoardStatuses ==
              [prevState.smallBoardStatuses EXCEPT ![boardIndex] = newSmallBoardStatus]
          global == checkGlobalWinner(newSmallBoardStatuses)
          historyItem ==
              [ board              |-> prevState.board,
                smallBoardStatuses |-> prevState.smallBoardStatuses,
                currentPlayer      |-> prevState.currentPlayer,
                nextBoardIndex     |-> prevState.nextBoardIndex,
                lastMove           |-> closureLastMove ]
      IN [ state |->
             [prevState EXCEPT
                !.board = newBoard,
                !.smallBoardStatuses = newSmallBoardStatuses,
                !.currentPlayer = NextPlayer(currentPlayer),
                !.nextBoardIndex = NextBoard(newSmallBoardStatuses, cellIndex),
                !.globalWinner = global.winner,
                !.isGlobalDraw = global.isDraw,
                !.history = Append(prevState.history, historyItem),
                !.moveCount = prevState.moveCount + 1],
           sent |-> MoveMessage(prevState, boardIndex, cellIndex, isRemote),
           result |-> "applied" ]

\* resetGameState(mode, difficulty): the fresh GameState and setLastMove(null).
resetGameState(mode, difficulty) ==
    [gameState |-> FreshGameState(mode, difficulty), lastMove |-> NoMove]

\* What startHosting and joinGame set before the peer is initialised.
startHosting == [onlineState |-> "HOSTING", onlineRole |-> "HOST"]

\* A faulty variant of joinGame: the joiner takes the host's role.
joinGameAsHost == [onlineState |-> "JOINING", onlineRole |-> "HOST"]

joinGame == [onlineState |-> "JOINING", onlineRole |-> "GUEST"]

\* A faulty variant of Restored: the statuses of the boards are not put back.
RestoredKeepingStatuses(gs, previousState, newHistory, stepsToUndo) ==
    [gs EXCEPT
       !.board = previousState.board,
       !.currentPlayer = previousState.currentPlayer,
       !.nextBoardIndex = previousState.nextBoardIndex,
       !.globalWinner = Null,
       !.isGlobalDraw = FALSE,
       !.history = newHistory,
       !.moveCount = gs.moveCount - stepsToUndo]

\* A faulty variant of Restored: the winner and the draw flag are left as
\* they are.
RestoredKeepingWinner(gs, previousState, newHistory, stepsToUndo) ==
    [gs EXCEPT
       !.board = previousState.board,
       !.smallBoardStatuses = previousState.smallBoardStatuses,
       !.currentPlayer = previousState.currentPlayer,
       !.nextBoardIndex = previousState.nextBoardIndex,
       !.history = newHistory,
       !.moveCount = gs.moveCount - stepsToUndo]

\* A faulty variant of Restored: the move count is left as it is.
RestoredKeepingMoveCount(gs, previousState, newHistory, stepsToUndo) ==
    [gs EXCEPT
       !.board = previousState.board,
       !.smallBoardStatuses = previousState.smallBoardStatuses,
       !.currentPlayer = previousState.currentPlayer,
       !.nextBoardIndex = previousState.nextBoardIndex,
       !.globalWinner = Null,
       !.isGlobalDraw = FALSE,
       !.history = newHistory]

\* The object undoMove hands to setGameState: gs with the fields of the
\* history item previousState put back.
Restored(gs, previousState, newHistory, stepsToUndo) ==
    [gs EXCEPT
       !.board = previousState.board,
       !.smallBoardStatuses = previousState.smallBoardStatuses,
       !.currentPlayer = previousState.currentPlayer,
       !.nextBoardIndex = previousState.nextBoardIndex,
       !.globalWinner = Null,
       !.isGlobalDraw = FALSE,
       !.history = newHistory,
       !.moveCount = gs.moveCount - stepsToUndo]

\* A faulty variant of undoMove: one step is undone against the AI too.
undoMoveOneStep(gs, lm) ==
    IF Len(gs.history) = 0
    THEN [gameState |-> gs, lastMove |-> lm, result |-> "noHistory"]
    ELSE IF gs.gameMode = "PvOnline"
    THEN [gameState |-> gs, lastMove |-> lm, result |-> "online"]
    ELSE
      LET stepsToUndo == 1
          targetStateIndex == Len(gs.history) - stepsToUndo
          previousState == gs.history[targetStateIndex + 1]
          newHistory == SubSeq(gs.history, 1, targetStateIndex)
      IN [ gameState |-> Restored(gs, previousState, newHistory, stepsToUndo),
           lastMove |-> previousState.lastMove,
           result |-> "undone" ]

\* A faulty variant of undoMove: without the test of the online mode.
undoMoveOnlineAllowed(gs, lm) ==
    LET stepsToUndo == IF gs.gameMode = "PvCPU" /\ gs.currentPlayer = X THEN 2 ELSE 1
    IN IF Len(gs.history) < stepsToUndo
       THEN [gameState |-> gs, lastMove |-> lm, result |-> "shortHistory"]
       ELSE
         LET targetStateIndex == Len(gs.history) - stepsToUndo
             previousState == gs.history[targetStateIndex + 1]
             newHistory == SubSeq(gs.history, 1, targetStateIndex)
         IN [ gameState |-> Restored(gs, previousState, newHistory, stepsToUndo),
              lastMove |-> previousState.lastMove,
              result |-> "undone" ]

\* undoMove on the rendered gameState gs and lastMove lm: the new gameState
\* and lastMove, and the branch it returned by.
undoMove(gs, lm) ==
    IF Len(gs.history) = 0
    THEN [gameState |-> gs, lastMove |-> lm, result |-> "noHistory"]
    ELSE IF gs.gameMode = "PvOnline"
    THEN [gameState |-> gs, lastMove |-> lm, result |-> "online"]
    ELSE
      LET stepsToUndo == IF gs.gameMode = "PvCPU" /\ gs.currentPlayer = X THEN 2 ELSE 1
      IN IF Len(gs.history) < stepsToUndo
         THEN [gameState |-> gs, lastMove |-> lm, result |-> "shortHistory"]
         ELSE
           LET targetStateIndex == Len(gs.history) - stepsToUndo
               previousState == gs.history[targetStateIndex + 1]
               newHistory == SubSeq(gs.history, 1, targetStateIndex)
           IN [ gameState |-> Restored(gs, previousState, newHistory, stepsToUndo),
                lastMove |-> previousState.lastMove,
                result |-> "undone" ]

-----------------------------------------------------------------------------
(* The AI effect of components/Game.tsx *)

\* The effect run after a render of gs: a timer whose callback closes over
\* gs when the match is against the AI, O is to move and the match is
\* neither won nor drawn, none otherwise.
AiEffect(gs) ==
    IF /\ gs.gameMode = "PvCPU"
       /\ gs.currentPlayer = O
       /\ gs.globalWinner = Null
       /\ ~gs.isGlobalDraw
    THEN <<gs>>
    ELSE <<>>

\* A faulty variant of Rendered: the effect has no cleanup, a pending timer
\* stays.
RenderedKeepingTimer(p, timer) ==
    IF timer # <<>> THEN timer
    ELSE IF \/ gameState'[p] # gameState[p]
            \/ lastMove'[p] # lastMove[p]
            \/ onlineRole'[p] # onlineRole[p]
    THEN AiEffect(gameState'[p])
    ELSE timer

\* The timer of instance p after the step, timer being the one pending
\* before it: when gameState or handleCellClick (which depends on lastMove
\* and onlineRole) has changed, the effect's cleanup clears the timer and
\* the effect runs again on the new gameState.
Rendered(p, timer) ==
    IF \/ gameState'[p] # gameState[p]
       \/ lastMove'[p] # lastMove[p]
       \/ onlineRole'[p] # onlineRole[p]
    THEN AiEffect(gameState'[p])
    ELSE timer

\* The re-render that follows a handler, on every instance.
Render == aiTimer' = [p \in Inst |-> Rendered(p, aiTimer[p])]

-----------------------------------------------------------------------------
(* Saved games: saveGame and loadGame of components/Game.tsx *)

\* localStorage.getItem(SAVE_KEY) of a browser that holds no item.
NoItem == <<>>

\* JSON texts, as the values they denote.
JsonNull == [t |-> "null"]
JsonString(s) == [t |-> "string", v |-> s]
JsonNumber(n) == [t |-> "number", v |-> n]
JsonBoolean(b) == [t |-> "boolean", v |-> b]
JsonArray(a) == [t |-> "array", v |-> a]
JsonObject(o) == [t |-> "object", v |-> o]

\* JSON.stringify of a `Player | null`, of a `number | null` and of a
\* `{ boardIndex, cellIndex } | null`.
StringifyPlayer(v) == IF v = Null THEN JsonNull ELSE JsonString(v)
StringifyIndex(n) == IF n = NoIndex THEN JsonNull ELSE JsonNumber(n)
StringifyMove(m) ==
    IF m = NoMove THEN JsonNull
    ELSE JsonObject([boardIndex |-> JsonNumber(m[1]), cellIndex |-> JsonNumber(m[2])])

\* JSON.stringify of a board and of the statuses of the boards.
StringifyBoard(board) ==
    JsonArray([b \in Idx |-> JsonArray([c \in Idx |-> StringifyPlayer(board[b][c])])])
StringifyStatuses(statuses) ==
    JsonArray([b \in Idx |->
        JsonObject([winner |-> StringifyPlayer(statuses[b].winner),
                    isDraw |-> JsonBoolean(statuses[b].isDraw)])])

\* `JSON.stringify(stateToSave)` with stateToSave
\* `{...gameState, history: [], lastMoveState: lastMove}`.
stringify(gs, lm) ==
    JsonObject(
      [ board              |-> StringifyBoard(gs.board),
        smallBoardStatuses |-> StringifyStatuses(gs.smallBoardStatuses),
        currentPlayer      |-> JsonString(gs.currentPlayer),
        nextBoardIndex     |-> StringifyIndex(gs.nextBoardIndex),
        globalWinner       |-> StringifyPlayer(gs.globalWinner),
        isGlobalDraw       |-> JsonBoolean(gs.isGlobalDraw),
        history            |-> JsonArray(<<>>),
        moveCount          |-> JsonNumber(gs.moveCount),
        gameMode           |-> JsonString(gs.gameMode),
        aiDifficulty       |-> JsonString(gs.aiDifficulty),
        lastMoveState      |-> StringifyMove(lm) ])

\* JSON.parse of the values above.
ParsePlayer(j) == IF j.t = "null" THEN Null ELSE j.v
ParseIndex(j) == IF j.t = "null" THEN NoIndex ELSE j.v
ParseMove(j) ==
    IF j.t = "null" THEN NoMove ELSE <<j.v.boardIndex.v, j.v.cellIndex.v>>
ParseBoard(j) == [b \in Idx |-> [c \in Idx |-> ParsePlayer(j.v[b].v[c])]]
ParseStatuses(j) ==
    [b \in Idx |-> [winner |-> ParsePlayer(j.v[b].v.winner),
                    isDraw |-> j.v[b].v.isDraw.v]]

\* `JSON.parse(saved)` of a text written by saveGame.
parse(saved) ==
    [ board              |-> ParseBoard(saved.v.board),
      smallBoardStatuses |-> ParseStatuses(saved.v.smallBoardStatuses),
      currentPlayer      |-> saved.v.currentPlayer.v,
      nextBoardIndex     |-> ParseIndex(saved.v.nextBoardIndex),
      globalWinner       |-> ParsePlayer(saved.v.globalWinner),
      isGlobalDraw       |-> saved.v.isGlobalDraw.v,
      history            |-> saved.v.history.v,
      moveCount          |-> saved.v.moveCount.v,
      gameMode           |-> saved.v.gameMode.v,
      aiDifficulty       |-> saved.v.aiDifficulty.v,
      lastMoveState      |-> ParseMove(saved.v.lastMoveState) ]

\* saveGame on the rendered gameState gs and lastMove lm: the item it sets.
saveGame(gs, lm) == <<stringify(gs, lm)>>

\* loadGame on the rendered gameState gs and lastMove lm with the stored
\* item: the new gameState and lastMove, and the branch it returned by.  The
\* board and the statuses of a text written by saveGame are arrays, which
\* are truthy, so "Invalid save file" is not thrown.  setLastMove is called
\* only when the parsed lastMoveState is truthy.
loadGame(gs, lm, item) ==
    IF item = NoItem
    THEN [gameState |-> gs, lastMove |-> lm, result |-> "noSave"]
    ELSE LET parsed == parse(item[1])
         IN [ gameState |->
                [parsed EXCEPT
                   !.aiDifficulty = IF parsed.aiDifficulty = ""
                                    THEN "Beginner" ELSE parsed.aiDifficulty,
                   !.history = <<>>],
              lastMove |-> IF parsed.lastMoveState # NoMove
                           THEN parsed.lastMoveState ELSE lm,
              result |-> IF parsed.gameMode = "PvOnline"
                         THEN "localAnalysis" ELSE "loaded" ]

-----------------------------------------------------------------------------
(* AI player: utils/aiLogic *)

RECURSIVE canWinBoardFrom(_, _, _)
canWinBoardFrom(board, player, i) ==
    IF i > 8 THEN NoIndex
    ELSE IF board[i] = Null
            /\ checkSmallBoardStatus([board EXCEPT ![i] = player]).winner = player
         THEN i
         ELSE canWinBoardFrom(board, player, i + 1)

\* canWinBoard: the first empty cell with which player wins the board, or null.
canWinBoard(board, player) == canWinBoardFrom(board, player, 0)

\* The first move m of validMoves, from position k on, with
\* canWinBoard(board[m.boardIndex], player) === m.cellIndex; <<>> if none.
RECURSIVE FirstWinningMove(_, _, _, _)
FirstWinningMove(gs, validMoves, player, k) ==
    IF k > Len(validMoves) THEN <<>>
    ELSE IF canWinBoard(gs.board[validMoves[k].boardIndex], player)
              = validMoves[k].cellIndex
         THEN <<validMoves[k]>>
         ELSE FirstWinningMove(gs, validMoves, player, k + 1)

SeqRange(s) == {s[i] : i \in 1 .. Len(s)}

\* The Beginner tier: validMoves[randomIndex], for any value of Math.random.
BeginnerMove(validMoves) == SeqRange(validMoves)

\* A faulty variant of IntermediateMove: the opponent's wins are not looked
\* for.
IntermediateMoveWinOnly(gs, validMoves) ==
    LET win == FirstWinningMove(gs, validMoves, gs.currentPlayer, 1)
    IN IF win # <<>> THEN {win[1]}
       ELSE SeqRange(validMoves)

\* The Intermediate tier: win a board, else block the opponent's win of a
\* board, else a random valid move.
IntermediateMove(gs, validMoves) ==
    LET opponent == IF gs.currentPlayer = X THEN O ELSE X
        win == FirstWinningMove(gs, validMoves, gs.currentPlayer, 1)
        block == FirstWinningMove(gs, validMoves, opponent, 1)
    IN IF win # <<>> THEN {win[1]}
       ELSE IF block # <<>> THEN {block[1]}
       ELSE SeqRange(validMoves)

\* A faulty variant of WinTerm: the bonus of the centre board and that of
\* the corner boards exchanged.
WinTermBonusSwapped(gs, move) ==
    LET currentSmallBoard ==
            [gs.board[move.boardIndex] EXCEPT ![move.cellIndex] = gs.currentPlayer]
        boardStatusResult == checkSmallBoardStatus(currentSmallBoard)
        nextStatuses ==
            [gs.smallBoardStatuses EXCEPT ![move.boardIndex] = boardStatusResult]
    IN IF boardStatusResult.winner = gs.currentPlayer
       THEN 100
            + (IF checkGlobalWinner(nextStatuses).winner = gs.currentPlayer
               THEN 10000 ELSE 0)
            + (IF move.boardIndex = 4 THEN 10
               ELSE IF move.boardIndex \in {0, 2, 6, 8} THEN 20 ELSE 0)
       ELSE 0

\* evaluateMove, "Factor: Win Small Board" with "Win Global Game" and
\* "Strategic Board Capture".
WinTerm(gs, move) ==
    LET currentSmallBoard ==
            [gs.board[move.boardIndex] EXCEPT ![move.cellIndex] = gs.currentPlayer]
        boardStatusResult == checkSmallBoardStatus(currentSmallBoard)
        nextStatuses ==
            [gs.smallBoardStatuses EXCEPT ![move.boardIndex] = boardStatusResult]
    IN IF boardStatusResult.winner = gs.currentPlayer
       THEN 100
            + (IF checkGlobalWinner(nextStatuses).winner = gs.currentPlayer
               THEN 10000 ELSE 0)
            + (IF move.boardIndex = 4 THEN 20
               ELSE IF move.boardIndex \in {0, 2, 6, 8} THEN 10 ELSE 0)
       ELSE 0

\* evaluateMove, "Factor: Block Opponent from Winning Small Board".
BlockTerm(gs, move) ==
    LET opponent == IF gs.currentPlayer = X THEN O ELSE X
        opponentWinMove == canWinBoard(gs.board[move.boardIndex], opponent)
    IN IF opponentWinMove = move.cellIndex THEN 80 ELSE 0

\* A faulty variant of DestinationTerm: the status of the destination board
\* is taken after the move.
DestinationTermAfterMove(gs, move) ==
    LET opponent == IF gs.currentPlayer = X THEN O ELSE X
        newBoard == [gs.board EXCEPT ![move.boardIndex][move.cellIndex] = gs.currentPlayer]
        nextBoardStatus ==
            IF move.cellIndex = move.boardIndex
            THEN checkSmallBoardStatus(newBoard[move.cellIndex])
            ELSE gs.smallBoardStatuses[move.cellIndex]
    IN IF nextBoardStatus.winner # Null \/ nextBoardStatus.isDraw
       THEN -50
       ELSE IF canWinBoard(newBoard[move.cellIndex], opponent) # NoIndex
       THEN -100
       ELSE 0

\* evaluateMove, "Factor: Destination Board Analysis".
DestinationTerm(gs, move) ==
    LET opponent == IF gs.currentPlayer = X THEN O ELSE X
        nextBoardIdx == move.cellIndex
        nextBoardStatus == gs.smallBoardStatuses[nextBoardIdx]
        isDestFullOrWon == nextBoardStatus.winner # Null \/ nextBoardStatus.isDraw
    IN IF isDestFullOrWon
       THEN -50
       ELSE IF canWinBoard(gs.board[nextBoardIdx], opponent) # NoIndex
       THEN -100
       ELSE 0

\* evaluateMove, "Factor: Center/Corner preference within the small board".
CellTerm(move) ==
    IF move.cellIndex = 4 THEN 5
    ELSE IF move.cellIndex \in {0, 2, 6, 8} THEN 3
    ELSE 0

\* evaluateMove: the score of a move for the Advanced tier.
evaluateMove(gs, move) ==
    WinTerm(gs, move) + BlockTerm(gs, move) + DestinationTerm(gs, move) + CellTerm(move)

\* `let bestScore = -Infinity`: below every score.
MinusInfinity == -100000000

\* A faulty variant of BestMovesFrom: a move that beats bestScore is added
\* to bestMoves instead of replacing them.
RECURSIVE BestMovesFromKeeping(_, _, _, _, _)
BestMovesFromKeeping(validMoves, scores, k, bestScore, bestMoves) ==
    IF k > Len(validMoves) THEN bestMoves
    ELSE IF scores[k] > bestScore
         THEN BestMovesFromKeeping(validMoves, scores, k + 1, scores[k],
                                   Append(bestMoves, validMoves[k]))
         ELSE IF (IF scores[k] >= bestScore THEN scores[k] - bestScore
                  ELSE bestScore - scores[k]) < 10
         THEN BestMovesFromKeeping(validMoves, scores, k + 1, bestScore,
                                   Append(bestMoves, validMoves[k]))
         ELSE BestMovesFromKeeping(validMoves, scores, k + 1, bestScore, bestMoves)

\* The loop of the Advanced tier over validMoves from position k on, scores
\* being the scores with their noise, in hundredths (0.1 is 10): the
\* bestMoves it ends with.
RECURSIVE BestMovesFrom(_, _, _, _, _)
BestMovesFrom(validMoves, scores, k, bestScore, bestMoves) ==
    IF k > Len(validMoves) THEN bestMoves
    ELSE IF scores[k] > bestScore
         THEN BestMovesFrom(validMoves, scores, k + 1, scores[k], <<validMoves[k]>>)
         ELSE IF (IF scores[k] >= bestScore THEN scores[k] - bestScore
                  ELSE bestScore - scores[k]) < 10
         THEN BestMovesFrom(validMoves, scores, k + 1, bestScore,
                            Append(bestMoves, validMoves[k]))
         ELSE BestMovesFrom(validMoves, scores, k + 1, bestScore, bestMoves)

\* evaluateMove on validMoves from position k on: the scores before noise.
RECURSIVE ScoresFrom(_, _, _)
ScoresFrom(gs, validMoves, k) ==
    IF k > Len(validMoves) THEN <<>>
    ELSE <<evaluateMove(gs, validMoves[k])>> \o ScoresFrom(gs, validMoves, k + 1)

\* The scores with the noise drawn for them added, in hundredths.
RECURSIVE NoisyScoresFrom(_, _, _)
NoisyScoresFrom(scores, noise, k) ==
    IF k > Len(scores) THEN <<>>
    ELSE <<100 * scores[k] + noise[k]>> \o NoisyScoresFrom(scores, noise, k + 1)

\* bestMoves of the Advanced tier for the scores before noise and the noise
\* drawn.
BestMoves(validMoves, scores, noise) ==
    BestMovesFrom(validMoves, NoisyScoresFrom(scores, noise, 1), 1, MinusInfinity, <<>>)

\* Values of `Math.random() * 5`, in hundredths, drawn in the model.
NoiseValues == {0, 5, 495}

\* The noise drawn for n moves, as explored: at most one of the draws
\* differs from 0.
NoiseVectors(n) ==
    { [k \in 1 .. n |-> IF k = i THEN a ELSE 0] : i \in 1 .. n, a \in NoiseValues }
    \cup { [k \in 1 .. n |-> 0] }

\* The noise getAiMove draws on gs: one value per valid move in the Advanced
\* tier, none in the others.
Draws(gs) ==
    IF gs.aiDifficulty = "Advanced"
    THEN NoiseVectors(Len(getValidMoves(gs)))
    ELSE {<<>>}

\* The Advanced tier: a random member of bestMoves, and validMoves[0] should
\* bestMoves be empty.
AdvancedMove(gs, validMoves, noise) ==
    LET bestMoves == BestMoves(validMoves, ScoresFrom(gs, validMoves, 1), noise)
    IN IF bestMoves # <<>> THEN SeqRange(bestMoves) ELSE {validMoves[1]}

\* The body of getAiMove after the test of validMoves.length.
TierMove(gs, validMoves, noise) ==
    CASE gs.aiDifficulty = "Beginner" -> BeginnerMove(validMoves)
      [] gs.aiDifficulty = "Intermediate" -> IntermediateMove(gs, validMoves)
      [] gs.aiDifficulty = "Advanced" -> AdvancedMove(gs, validMoves, noise)
      [] OTHER -> {validMoves[1]}

\* The value standing for undefined, an element read past the end of an
\* array.
Undefined == [boardIndex |-> NoIndex, cellIndex |-> NoIndex]

\* A faulty variant of getAiMoveDrawn, without the test of
\* validMoves.length.
getAiMoveDrawnUnchecked(gs, noise) ==
    IF Len(getValidMoves(gs)) = 0 THEN {Undefined}
    ELSE TierMove(gs, getValidMoves(gs), noise)

\* getAiMove with the noise it draws given: the moves it can return, over
\* the random indices it can draw; the empty set stands for null.
getAiMoveDrawn(gs, noise) ==
    LET validMoves == getValidMoves(gs)
    IN IF Len(validMoves) = 0 THEN {}
       ELSE TierMove(gs, validMoves, noise)

\* getAiMove: the moves it can return, over the values Math.random can take.
getAiMove(gs) == UNION { getAiMoveDrawn(gs, noise) : noise \in Draws(gs) }

-----------------------------------------------------------------------------
(* Recorded openings *)

\* Move lists of two complete games and the start of a third.  Every
\* position the model starts from is a prefix of one of them, replayed from
\* the fresh state through handleCellClick, so it is a position the program
\* reaches.
\* Opening 1: X wins boards 6, 4 and 2 and with them the game on move 17.
\* Opening 2: all nine boards get decided without a line of three, the last
\* one (board 2) by filling up: a global draw on move 43.
\* Opening 3: after four moves X is sent to board 0 and can win it by
\* playing its cell 0, the cell that sends the opponent to board 0 again.
Openings ==
    << << <<4,6>>, <<6,6>>, <<6,2>>, <<2,2>>, <<2,1>>, <<1,4>>, <<4,0>>,
          <<0,2>>, <<2,7>>, <<7,6>>, <<6,8>>, <<8,6>>, <<6,5>>, <<5,6>>,
          <<4,3>>, <<3,4>>, <<2,4>> >>,
       << <<6,8>>, <<8,7>>, <<7,5>>, <<5,6>>, <<6,0>>, <<0,5>>, <<5,4>>,
          <<4,0>>, <<0,2>>, <<2,6>>, <<6,4>>, <<4,4>>, <<4,8>>, <<8,8>>,
          <<8,3>>, <<3,2>>, <<2,8>>, <<8,6>>, <<0,1>>, <<1,7>>, <<7,8>>,
          <<3,1>>, <<1,1>>, <<1,5>>, <<5,2>>, <<2,5>>, <<5,5>>, <<5,7>>,
          <<7,2>>, <<2,0>>, <<0,0>>, <<3,0>>, <<5,3>>, <<1,4>>, <<4,5>>,
          <<2,2>>, <<2,1>>, <<1,6>>, <<4,2>>, <<2,7>>, <<2,3>>, <<1,3>>,
          <<2,4>> >>,
       << <<0,1>>, <<1,0>>, <<0,2>>, <<2,0>> >> >>

\* The prefix lengths the model starts from, per opening.
Cuts == << {0, 14, 15, 16, 17}, {41, 42, 43}, {4} >>

\* An instance's gameState and lastMove after moves i..n of script, played
\* alternately by X and O.  In an online match the moves of the other mark
\* arrive as MOVE messages (isRemote, through the data handler's closure).
RECURSIVE Replay(_, _, _, _, _, _)
Replay(st, script, i, n, role, dataLastMove) ==
    IF i > n \/ st.gameState.moveCount # i - 1 THEN st
    ELSE LET isRemote == /\ st.gameState.gameMode = "PvOnline"
                         /\ st.gameState.currentPlayer # myPlayer(role)
             r == handleCellClick(st.gameState, role,
                                  IF isRemote THEN dataLastMove ELSE st.lastMove,
                                  script[i][1], script[i][2], isRemote)
         IN Replay([gameState |-> r.state, lastMove |-> <<script[i][1], script[i][2]>>],
                   script, i + 1, n, role, dataLastMove)

\* Move lists of matches against the AI, which plays O.
\* Intermediate, 1: after seven moves O is sent to board 0, where it holds
\* cells 1, 3 and 4 and wins with cell 5 as with cell 7.
\* Intermediate and Advanced, 2: after seven moves O is sent to board 0,
\* where X holds cells 0, 1 and 3 and would win with cell 2 as with cell 6.
\* Advanced, 3: O has won boards 3 and 5 and holds cells 0 and 8 of board 4;
\* after move 17 it is sent to board 4, wins it and the game with cell 4
\* (move 18), and no cell of board 4 wins it for X.
\* Advanced, 4: as 3, but X holds cells 3 and 5 of board 4, so that cell 4
\* wins board 4 for either mark.
AiOpenings ==
    << << <<2,0>>, <<0,1>>, <<1,0>>, <<0,3>>, <<3,0>>, <<0,4>>, <<4,0>> >>,
       << <<4,4>>, <<4,0>>, <<0,1>>, <<1,0>>, <<0,3>>, <<3,0>>, <<0,0>> >>,
       << <<1,4>>, <<4,0>>, <<0,4>>, <<4,8>>, <<8,3>>, <<3,0>>, <<0,3>>,
          <<3,6>>, <<6,3>>, <<3,3>>, <<7,5>>, <<5,2>>, <<2,5>>, <<5,8>>,
          <<8,5>>, <<5,5>>, <<7,4>>, <<4,4>> >>,
       << <<4,3>>, <<3,0>>, <<0,4>>, <<4,0>>, <<0,3>>, <<3,6>>, <<6,4>>,
          <<4,8>>, <<8,3>>, <<3,3>>, <<4,5>>, <<5,2>>, <<2,5>>, <<5,8>>,
          <<8,5>>, <<5,5>>, <<7,4>> >> >>

\* The move lists of a match against the AI of tier d: the Beginner tier can
\* play every legal move, so every recorded opening is one of its matches.
AiScripts(d) ==
    CASE d = "Beginner" -> Openings
      [] d = "Intermediate" -> <<AiOpenings[1], AiOpenings[2]>>
      [] d = "Advanced" -> <<AiOpenings[2], AiOpenings[3], AiOpenings[4]>>

\* The gameStates of a match against the AI that goes through st and on
\* with the moves of script from move i: X's moves are clicks, O's are moves
\* getAiMove returns to the AI effect, and the match is followed as far as
\* getAiMove can return O's move.
RECURSIVE AiMatchFrom(_, _, _)
AiMatchFrom(st, script, i) ==
    {st.gameState} \cup
    IF i > Len(script) THEN {}
    ELSE LET move == [boardIndex |-> script[i][1], cellIndex |-> script[i][2]]
             r == handleCellClick(st.gameState, Null, st.lastMove,
                                  script[i][1], script[i][2], FALSE)
         IN IF /\ r.result = "applied"
               /\ st.gameState.currentPlayer = O =>
                    \E noise \in Draws(st.gameState) :
                        move \in getAiMoveDrawn(st.gameState, noise)
            THEN AiMatchFrom([gameState |-> r.state,
                              lastMove |-> <<script[i][1], script[i][2]>>],
                             script, i + 1)
            ELSE {}

\* The positions of the matches against the AI of tier d in which getAiMove
\* has a move to make for O or the match is over.
AiPositions(d) ==
    { gs \in UNION { AiMatchFrom(resetGameState("PvCPU", d), AiScripts(d)[k], 1) :
                     k \in 1 .. Len(AiScripts(d)) } :
        \/ gs.currentPlayer = O
        \/ gs.globalWinner # Null
        \/ gs.isGlobalDraw }

-----------------------------------------------------------------------------
(* Bounds *)

\* State changes a behaviour may originate after Init: applied clicks and AI
\* moves, undos and new matches.  Attempts that are turned down and the
\* delivery of messages are not counted.
MaxPly == 2

\* The cells the user clicks: boards 0 .. MaxCell, cells 0 .. MaxCell.
MaxCell == 4

\* The AI tiers explored in PvCPU.
Difficulties == {"Beginner", "Intermediate"}

-----------------------------------------------------------------------------
(* Initial states *)

NoProbe == [cells |-> createInitialBoard[0], checked |-> FALSE,
            status |-> [winner |-> Null, isDraw |-> FALSE],
            saved |-> [p \in Inst |-> <<>>]]

\* peerService of an instance: its connection, and the role and lastMove
\* that the handleOnlineData given to initHost / initJoin closed over.
NoService == [conn |-> "none", onDataRole |-> Null, onDataLastMove |-> NoMove]

\* The state of a mounted component: the useState initial values.
Mounted == resetGameState("PvP", "Beginner")

\* Offline play on "h": opening k played to move n, in PvP or against the
\* Beginner AI (which can play any legal move).
LocalInit(mode, k, n) ==
    LET st == Replay(resetGameState(mode, "Beginner"), Openings[k], 1, n, Null, NoMove)
    IN /\ gameState = [p \in Inst |-> IF p = "h" THEN st.gameState ELSE Mounted.gameState]
       /\ lastMove = [p \in Inst |-> IF p = "h" THEN st.lastMove ELSE Mounted.lastMove]
       /\ onlineState = [p \in Inst |-> "IDLE"]
       /\ onlineRole = [p \in Inst |-> Null]
       /\ peerService = [p \in Inst |-> NoService]
       /\ net = [p \in Inst |-> <<>>]

\* An online match: "h" ran startHosting and "g" joinGame from a mounted
\* component, the connection opened on both sides (onConnect: CONNECTED and
\* startNewGame('PvOnline')), and opening k was played to move n with every
\* MOVE delivered.
OnlineInit(k, n) ==
    LET role == [p \in Inst |-> IF p = "h" THEN startHosting.onlineRole
                                ELSE joinGame.onlineRole]
        st == [p \in Inst |->
                 Replay(resetGameState("PvOnline", "Beginner"), Openings[k], 1, n,
                        role[p], Mounted.lastMove)]
    IN /\ gameState = [p \in Inst |-> st[p].gameState]
       /\ lastMove = [p \in Inst |-> st[p].lastMove]
       /\ onlineState = [p \in Inst |-> "CONNECTED"]
       /\ onlineRole = role
       /\ peerService = [p \in Inst |->
                            [conn |-> "open", onDataRole |-> Null,
                             onDataLastMove |-> Mounted.lastMove]]
       /\ net = [p \in Inst |-> <<>>]

InitRest ==
    /\ last = [op |-> "init", inst |-> "h", at |-> NoMove, result |-> "none"]
    /\ ply = 0
    /\ localStorage = [p \in Inst |-> NoItem]
    /\ aiTimer = [p \in Inst |-> AiEffect(gameState[p])]
    /\ probe = NoProbe

\* The matches explored: online and against the AI from the positions of
\* the first and third opening, two players on one screen from all of them.
Starts(mode) ==
    UNION { {<<k, n>> : n \in Cuts[k]} :
            k \in {j \in 1 .. Len(Openings) : mode # "PvP" => j # 2} }

InitOnline ==
    /\ \E kn \in Starts("PvOnline") : OnlineInit(kn[1], kn[2])
    /\ InitRest

InitLocal ==
    /\ \E mode \in {"PvP", "PvCPU"} :
         \E kn \in Starts(mode) : LocalInit(mode, kn[1], kn[2])
    /\ InitRest

Init == InitLocal \/ InitOnline

\* An online match whose connection can fail: a fresh match, and the
\* position one move before the end of opening 1.
InitDisc ==
    /\ \E n \in {0, 16} : OnlineInit(1, n)
    /\ InitRest

\* checkSmallBoardStatus under test: any nine cells, not yet checked.
InitStatus ==
    /\ LocalInit("PvP", 1, 0)
    /\ last = [op |-> "init", inst |-> "h", at |-> NoMove, result |-> "none"]
    /\ ply = 0
    /\ localStorage = [p \in Inst |-> NoItem]
    /\ aiTimer = [p \in Inst |-> AiEffect(gameState[p])]
    /\ \E cells \in [Idx -> {X, O, Null}] :
         probe = [NoProbe EXCEPT !.cells = cells]

-----------------------------------------------------------------------------
(* Handlers *)

\* The instances that take user input and timer events (see the head of the
\* module).
Driven(p) == p = "h" \/ gameState[p].gameMode = "PvOnline"

\* isInteractionAllowed of the render of instance p (Game.tsx, board grid).
isInteractionAllowed(p) ==
    LET gs == gameState[p]
    IN /\ ~(gs.gameMode = "PvCPU" /\ gs.currentPlayer = O)
       /\ gs.gameMode = "PvOnline" =>
            /\ ~(onlineRole[p] = "HOST" /\ gs.currentPlayer = O)
            /\ ~(onlineRole[p] = "GUEST" /\ gs.currentPlayer = X)
            /\ onlineState[p] = "CONNECTED"

\* A faulty variant of send: the message is written to the connection twice.
sendTwice(p, msgs) ==
    IF peerService[p].conn = "open"
    THEN [net EXCEPT ![Other(p)] = net[Other(p)] \o msgs \o msgs]
    ELSE net

\* peerService.send from instance p: conn.send only on an open connection.
send(p, msgs) ==
    IF peerService[p].conn = "open"
    THEN [net EXCEPT ![Other(p)] = net[Other(p)] \o msgs]
    ELSE net

\* The effects of one run r of handleCellClick(b, c, ...) on instance p.
Commit(p, b, c, r) ==
    /\ gameState' = [gameState EXCEPT ![p] = r.state]
    /\ lastMove' = IF r.result = "applied"
                   THEN [lastMove EXCEPT ![p] = <<b, c>>]
                   ELSE lastMove

\* The onCellClick prop of the cell (b, c) of instance p:
\* isInteractionAllowed ? handleCellClick(b, c, false) : () => {}.
ClickResult(p, b, c) ==
    IF isInteractionAllowed(p)
    THEN handleCellClick(gameState[p], onlineRole[p], lastMove[p], b, c, FALSE)
    ELSE Rejected(gameState[p], "ignored")

OnCellClick(p, b, c) ==
    /\ Driven(p)
    /\ LET r == ClickResult(p, b, c)
       IN /\ r.result = "applied" => ply < MaxPly
          /\ Commit(p, b, c, r)
          /\ net' = send(p, r.sent)
          /\ ply' = IF r.result = "applied" THEN ply + 1 ELSE ply
          /\ last' = [op |-> "click", inst |-> p, at |-> <<b, c>>, result |-> r.result]
    /\ UNCHANGED <<onlineState, onlineRole, peerService, probe, localStorage>>
    /\ Render

\* The branch a click on the cell (b, c) of instance p returns by.
ClickBranch(p, b, c) ==
    IF isInteractionAllowed(p)
    THEN Validation(gameState[p], onlineRole[p], b, c, FALSE)
    ELSE "ignored"

Clicked == (0 .. MaxCell) \X (0 .. MaxCell)

\* The cells clicked on instance p: every cell of Clicked whose click is
\* applied, and for each branch a click is turned down by, one cell that
\* takes it.
ClickInputs(p) ==
    IF ~isInteractionAllowed(p) THEN {<<0, 0>>}
    ELSE {bc \in Clicked : ClickBranch(p, bc[1], bc[2]) = "applied"}
           \cup {CHOOSE bc \in Clicked : ClickBranch(p, bc[1], bc[2]) = why :
                   why \in {ClickBranch(p, bc[1], bc[2]) : bc \in Clicked} \ {"applied"}}

\* A faulty variant of OnData: RESTART is answered by startNewGame, which
\* sends RESTART in turn.
OnDataRestartAnswered(p) ==
    /\ peerService[p].conn = "open"
    /\ net[p] # <<>>
    /\ LET data == Head(net[p])
           rest == [net EXCEPT ![p] = Tail(net[p])]
       IN IF data.type = "MOVE"
          THEN LET r == handleCellClick(gameState[p], peerService[p].onDataRole,
                                        peerService[p].onDataLastMove,
                                        data.boardIndex, data.cellIndex, TRUE)
               IN /\ Commit(p, data.boardIndex, data.cellIndex, r)
                  /\ net' = [rest EXCEPT ![Other(p)] = rest[Other(p)] \o r.sent]
                  /\ last' = [op |-> "data", inst |-> p,
                              at |-> <<data.boardIndex, data.cellIndex>>,
                              result |-> r.result]
          ELSE /\ data.type = "RESTART"
               /\ gameState' = [gameState EXCEPT
                                  ![p] = resetGameState("PvOnline", "Beginner").gameState]
               /\ lastMove' = [lastMove EXCEPT
                                  ![p] = resetGameState("PvOnline", "Beginner").lastMove]
               /\ net' = [rest EXCEPT ![Other(p)] = rest[Other(p)] \o <<[type |-> "RESTART"]>>]
               /\ last' = [op |-> "data", inst |-> p, at |-> NoMove, result |-> "restart"]
    /\ UNCHANGED <<onlineState, onlineRole, peerService, ply, probe, localStorage>>
    /\ Render

\* conn.on('data') of instance p: handleOnlineData on the next message.
OnData(p) ==
    /\ peerService[p].conn = "open"
    /\ net[p] # <<>>
    /\ LET data == Head(net[p])
           rest == [net EXCEPT ![p] = Tail(net[p])]
       IN IF data.type = "MOVE"
          THEN LET r == handleCellClick(gameState[p], peerService[p].onDataRole,
                                        peerService[p].onDataLastMove,
                                        data.boardIndex, data.cellIndex, TRUE)
               IN /\ Commit(p, data.boardIndex, data.cellIndex, r)
                  /\ net' = [rest EXCEPT ![Other(p)] = rest[Other(p)] \o r.sent]
                  /\ last' = [op |-> "data", inst |-> p,
                              at |-> <<data.boardIndex, data.cellIndex>>,
                              result |-> r.result]
          ELSE /\ data.type = "RESTART"
               /\ gameState' = [gameState EXCEPT
                                  ![p] = resetGameState("PvOnline", "Beginner").gameState]
               /\ lastMove' = [lastMove EXCEPT
                                  ![p] = resetGameState("PvOnline", "Beginner").lastMove]
               /\ net' = rest
               /\ last' = [op |-> "data", inst |-> p, at |-> NoMove, result |-> "restart"]
    /\ UNCHANGED <<onlineState, onlineRole, peerService, ply, probe, localStorage>>
    /\ Render

\* The AI effect's timer of instance p firing: getAiMove on the gameState
\* the callback closed over, then handleCellClick on the move, if any, whose
\* updater runs on the gameState of the moment.  The timer is spent.
AiTimer(p) ==
    /\ Driven(p)
    /\ aiTimer[p] # <<>>
    /\ \/ /\ getAiMove(aiTimer[p][1]) = {}
          /\ last' = [op |-> "ai", inst |-> p, at |-> NoMove, result |-> "noMove"]
          /\ UNCHANGED <<gameState, lastMove, net, ply>>
       \/ \E move \in getAiMove(aiTimer[p][1]) :
            LET r == handleCellClick(gameState[p], onlineRole[p], lastMove[p],
                                     move.boardIndex, move.cellIndex, FALSE)
            IN /\ r.result = "applied" => ply < MaxPly
               /\ Commit(p, move.boardIndex, move.cellIndex, r)
               /\ net' = send(p, r.sent)
               /\ ply' = IF r.result = "applied" THEN ply + 1 ELSE ply
               /\ last' = [op |-> "ai", inst |-> p,
                           at |-> <<move.boardIndex, move.cellIndex>>,
                           result |-> r.result]
    /\ UNCHANGED <<onlineState, onlineRole, peerService, probe, localStorage>>
    /\ aiTimer' = [q \in Inst |-> Rendered(q, IF q = p THEN <<>> ELSE aiTimer[q])]

\* The Undo button of instance p.
UndoClick(p) ==
    /\ Driven(p)
    /\ LET r == undoMove(gameState[p], lastMove[p])
       IN /\ r.result = "undone" => ply < MaxPly
          /\ gameState' = [gameState EXCEPT ![p] = r.gameState]
          /\ lastMove' = [lastMove EXCEPT ![p] = r.lastMove]
          /\ ply' = IF r.result = "undone" THEN ply + 1 ELSE ply
          /\ last' = [op |-> "undo", inst |-> p, at |-> NoMove, result |-> r.result]
    /\ UNCHANGED <<onlineState, onlineRole, peerService, net, probe, localStorage>>
    /\ Render

\* The Save button of instance p: saveGame.
SaveClick(p) ==
    /\ Driven(p)
    /\ localStorage' = [localStorage EXCEPT ![p] = saveGame(gameState[p], lastMove[p])]
    /\ probe' = [probe EXCEPT !.saved[p] =
                    <<[gameState |-> gameState[p], lastMove |-> lastMove[p]]>>]
    /\ ply < MaxPly
    /\ ply' = ply + 1
    /\ last' = [op |-> "save", inst |-> p, at |-> NoMove, result |-> "saved"]
    /\ UNCHANGED <<gameState, lastMove, onlineState, onlineRole, peerService, net>>
    /\ Render

\* The Load button of instance p: loadGame.
LoadClick(p) ==
    /\ Driven(p)
    /\ LET r == loadGame(gameState[p], lastMove[p], localStorage[p])
       IN /\ gameState' = [gameState EXCEPT ![p] = r.gameState]
          /\ lastMove' = [lastMove EXCEPT ![p] = r.lastMove]
          /\ last' = [op |-> "load", inst |-> p, at |-> NoMove, result |-> r.result]
    /\ UNCHANGED <<onlineState, onlineRole, peerService, net, ply, probe,
                   localStorage>>
    /\ Render

\* A faulty variant of StartNewGame: peerService.cleanUp() is left out.
StartNewGameKeepingChannel(p, mode, difficulty) ==
    /\ Driven(p)
    /\ mode # "PvOnline"
    /\ ply < MaxPly
    /\ ply' = ply + 1
    /\ onlineState' = [onlineState EXCEPT ![p] = "IDLE"]
    /\ onlineRole' = [onlineRole EXCEPT ![p] = Null]
    /\ gameState' = [gameState EXCEPT ![p] = resetGameState(mode, difficulty).gameState]
    /\ lastMove' = [lastMove EXCEPT ![p] = resetGameState(mode, difficulty).lastMove]
    /\ last' = [op |-> "newGame", inst |-> p, at |-> NoMove, result |-> mode]
    /\ UNCHANGED <<peerService, net, probe, localStorage>>
    /\ Render

\* startNewGame(mode, difficulty) of instance p for a non-online mode (the
\* PvP and difficulty buttons): peerService.cleanUp(), IDLE, no role, and
\* resetGameState.
StartNewGame(p, mode, difficulty) ==
    /\ Driven(p)
    /\ mode # "PvOnline"
    /\ ply < MaxPly
    /\ ply' = ply + 1
    /\ peerService' = [peerService EXCEPT ![p].conn = "none"]
    /\ net' = [net EXCEPT ![p] = <<>>]
    /\ onlineState' = [onlineState EXCEPT ![p] = "IDLE"]
    /\ onlineRole' = [onlineRole EXCEPT ![p] = Null]
    /\ gameState' = [gameState EXCEPT ![p] = resetGameState(mode, difficulty).gameState]
    /\ lastMove' = [lastMove EXCEPT ![p] = resetGameState(mode, difficulty).lastMove]
    /\ last' = [op |-> "newGame", inst |-> p, at |-> NoMove, result |-> mode]
    /\ UNCHANGED <<probe, localStorage>>
    /\ Render

\* conn.on('close') of instance p: onDisconnect, and no data after it.
ConnClose(p) ==
    /\ peerService[p].conn = "open"
    /\ peerService' = [peerService EXCEPT ![p].conn = "closed"]
    /\ net' = [net EXCEPT ![p] = <<>>]
    /\ onlineState' = [onlineState EXCEPT ![p] = "DISCONNECTED"]
    /\ last' = [op |-> "close", inst |-> p, at |-> NoMove, result |-> "none"]
    /\ UNCHANGED <<gameState, lastMove, onlineRole, ply, probe, localStorage>>
    /\ Render

\* conn.on('error') of instance p: onDisconnect; the connection object and
\* its data handler stay as they are.
ConnError(p) ==
    /\ peerService[p].conn = "open"
    /\ onlineState' = [onlineState EXCEPT ![p] = "DISCONNECTED"]
    /\ last' = [op |-> "error", inst |-> p, at |-> NoMove, result |-> "none"]
    /\ UNCHANGED <<gameState, lastMove, onlineRole, peerService, net, ply, probe, localStorage>>
    /\ Render

\* getValidMoves under test: the position of an opening, with any
\* nextBoardIndex (also one of a decided board) and any globalWinner.
InitMoves ==
    /\ LocalInit("PvP", 1, 0)
    /\ last = [op |-> "init", inst |-> "h", at |-> NoMove, result |-> "none"]
    /\ ply = 0
    /\ localStorage = [p \in Inst |-> NoItem]
    /\ aiTimer = [p \in Inst |-> AiEffect(gameState[p])]
    /\ \E kn \in Starts("PvP") : \E next \in {NoIndex} \cup Idx : \E w \in {Null, X, O} :
         probe = [ gs |-> [Replay(resetGameState("PvP", "Beginner"),
                                  Openings[kn[1]], 1, kn[2], Null, NoMove).gameState
                             EXCEPT !.nextBoardIndex = next, !.globalWinner = w],
                   checked |-> FALSE,
                   moves |-> <<>> ]

\* A call of getValidMoves on the state under test.
CallValidMoves ==
    /\ ~probe.checked
    /\ probe' = [probe EXCEPT !.checked = TRUE, !.moves = getValidMoves(probe.gs)]
    /\ last' = [op |-> "validMoves", inst |-> "h", at |-> NoMove, result |-> "none"]
    /\ UNCHANGED <<gameState, lastMove, onlineState, onlineRole, peerService, net, ply,
                   localStorage>>
    /\ Render

\* The statuses checkSmallBoardStatus returns: won by X, won by O, drawn,
\* undecided.
StatusValues ==
    { [winner |-> X, isDraw |-> FALSE], [winner |-> O, isDraw |-> FALSE],
      [winner |-> Null, isDraw |-> TRUE], [winner |-> Null, isDraw |-> FALSE] }

\* checkGlobalWinner under test: any nine statuses, not yet checked.
InitGlobal ==
    /\ LocalInit("PvP", 1, 0)
    /\ last = [op |-> "init", inst |-> "h", at |-> NoMove, result |-> "none"]
    /\ ply = 0
    /\ localStorage = [p \in Inst |-> NoItem]
    /\ aiTimer = [p \in Inst |-> AiEffect(gameState[p])]
    /\ \E statuses \in [Idx -> StatusValues] :
         probe = [statuses |-> statuses, checked |-> FALSE,
                  global |-> [winner |-> Null, isDraw |-> FALSE]]

\* A call of checkGlobalWinner on the statuses under test.
CheckGlobal ==
    /\ ~probe.checked
    /\ probe' = [probe EXCEPT !.checked = TRUE,
                              !.global = checkGlobalWinner(probe.statuses)]
    /\ last' = [op |-> "checkGlobal", inst |-> "h", at |-> NoMove, result |-> "none"]
    /\ UNCHANGED <<gameState, lastMove, onlineState, onlineRole, peerService, net, ply,
                   localStorage>>
    /\ Render

\* A RESTART written to the connection by the remote end of instance p,
\* whatever client runs there: conn.on('data') hands handleOnlineData every
\* message that arrives.
RestartArrives(p) ==
    /\ peerService[p].conn = "open"
    /\ ply < MaxPly
    /\ ply' = ply + 1
    /\ net' = [net EXCEPT ![p] = Append(net[p], [type |-> "RESTART"])]
    /\ last' = [op |-> "arrive", inst |-> p, at |-> NoMove, result |-> "RESTART"]
    /\ UNCHANGED <<gameState, lastMove, onlineState, onlineRole, peerService, probe, localStorage>>
    /\ Render

\* Both components mounted, no online session started.
InitConn ==
    /\ LocalInit("PvP", 1, 0)
    /\ InitRest

\* The values of the Game ID field explored: empty, and a host's id.
JoinIds == {"", "id"}

\* A click on "Create Game", offered while IDLE or DISCONNECTED:
\* startHosting, with initHost's cleanUp and its keeping of the
\* handleOnlineData of this render.
StartHosting(p) ==
    /\ onlineState[p] \in {"IDLE", "DISCONNECTED"}
    /\ onlineState' = [onlineState EXCEPT ![p] = startHosting.onlineState]
    /\ onlineRole' = [onlineRole EXCEPT ![p] = startHosting.onlineRole]
    /\ peerService' = [peerService EXCEPT
                          ![p] = [conn |-> "none", onDataRole |-> onlineRole[p],
                                  onDataLastMove |-> lastMove[p]]]
    /\ net' = [net EXCEPT ![p] = <<>>]
    /\ last' = [op |-> "startHosting", inst |-> p, at |-> NoMove, result |-> "none"]
    /\ UNCHANGED <<gameState, lastMove, ply, probe, localStorage>>
    /\ Render

\* A click on "Join", offered while IDLE or DISCONNECTED: joinGame, which
\* only notifies when the Game ID field is empty.
JoinGame(p, joinId) ==
    /\ onlineState[p] \in {"IDLE", "DISCONNECTED"}
    /\ IF joinId = ""
       THEN /\ last' = [op |-> "joinGame", inst |-> p, at |-> NoMove, result |-> "noId"]
            /\ UNCHANGED <<onlineState, onlineRole, peerService, net>>
       ELSE /\ onlineState' = [onlineState EXCEPT ![p] = joinGame.onlineState]
            /\ onlineRole' = [onlineRole EXCEPT ![p] = joinGame.onlineRole]
            /\ peerService' = [peerService EXCEPT
                                  ![p] = [conn |-> "none", onDataRole |-> onlineRole[p],
                                          onDataLastMove |-> lastMove[p]]]
            /\ net' = [net EXCEPT ![p] = <<>>]
            /\ last' = [op |-> "joinGame", inst |-> p, at |-> NoMove, result |-> "joining"]
    /\ UNCHANGED <<gameState, lastMove, ply, probe, localStorage>>
    /\ Render

\* The joiner's peer opens and connects to the host's peer, whose
\* 'connection' event fires: either side holds a connection not yet open.
\* The peer initHost made lives until the next cleanUp, as long as
\* onlineRole is HOST, whatever onlineState has become.
PeerConnection(g, h) ==
    /\ g # h
    /\ onlineRole[g] = "GUEST"
    /\ peerService[g].conn = "none"
    /\ onlineRole[h] = "HOST"
    /\ peerService' = [q \in Inst |-> [peerService[q] EXCEPT !.conn = "pending"]]
    /\ net' = [q \in Inst |-> <<>>]
    /\ last' = [op |-> "connection", inst |-> h, at |-> NoMove, result |-> "none"]
    /\ UNCHANGED <<gameState, lastMove, onlineState, onlineRole, ply, probe, localStorage>>
    /\ Render

\* The connection's 'open' event on instance p: the onConnect given to
\* initHost / initJoin, CONNECTED and startNewGame('PvOnline'), whose
\* onlineState is that of the render the button was clicked in, never
\* CONNECTED, so that it sends nothing.
ConnOpen(p) ==
    /\ peerService[p].conn = "pending"
    /\ peerService' = [peerService EXCEPT ![p].conn = "open"]
    /\ onlineState' = [onlineState EXCEPT ![p] = "CONNECTED"]
    /\ gameState' = [gameState EXCEPT
                        ![p] = resetGameState("PvOnline", "Beginner").gameState]
    /\ lastMove' = [lastMove EXCEPT
                       ![p] = resetGameState("PvOnline", "Beginner").lastMove]
    /\ last' = [op |-> "open", inst |-> p, at |-> NoMove, result |-> "none"]
    /\ UNCHANGED <<onlineRole, net, ply, probe, localStorage>>
    /\ Render

\* The peer's 'error' event on instance p, whose peer exists from
\* startHosting / joinGame to the next cleanUp: handleOnlineError.
PeerError(p) ==
    /\ onlineRole[p] # Null
    /\ onlineState' = [onlineState EXCEPT ![p] = "IDLE"]
    /\ last' = [op |-> "peerError", inst |-> p, at |-> NoMove, result |-> "none"]
    /\ UNCHANGED <<gameState, lastMove, onlineRole, peerService, net, ply, probe, localStorage>>
    /\ Render

\* The AI tiers of the types' Difficulty.
AllDifficulties == {"Beginner", "Intermediate", "Advanced"}

\* getAiMove under test: a position of a match against the AI of some tier,
\* not yet called.
InitAiMove ==
    /\ LocalInit("PvP", 1, 0)
    /\ last = [op |-> "init", inst |-> "h", at |-> NoMove, result |-> "none"]
    /\ ply = 0
    /\ localStorage = [p \in Inst |-> NoItem]
    /\ aiTimer = [p \in Inst |-> AiEffect(gameState[p])]
    /\ \E d \in AllDifficulties : \E gs \in AiPositions(d) :
         probe = [ gs |-> gs, called |-> FALSE, noise |-> <<>>, validMoves |-> <<>>,
                   terms |-> <<>>, bestMoves |-> <<>>, move |-> <<>> ]

\* A call of getAiMove on the state under test, which it only reads: the
\* valid moves it enumerates, the terms evaluateMove adds up for each of
\* them and bestMoves (Advanced tier), and the move returned, as a
\* one-element sequence, empty for null.
CallAiMove ==
    /\ ~probe.called
    /\ LET validMoves == getValidMoves(probe.gs)
           advanced == probe.gs.aiDifficulty = "Advanced" /\ Len(validMoves) > 0
           scores == ScoresFrom(probe.gs, validMoves, 1)
           terms == IF advanced
                    THEN [k \in 1 .. Len(validMoves) |->
                            [ win |-> WinTerm(probe.gs, validMoves[k]),
                              block |-> BlockTerm(probe.gs, validMoves[k]),
                              dest |-> DestinationTerm(probe.gs, validMoves[k]),
                              cell |-> CellTerm(validMoves[k]),
                              score |-> scores[k] ]]
                    ELSE <<>>
       IN \E noise \in Draws(probe.gs) :
            LET returned == getAiMoveDrawn(probe.gs, noise)
            IN \E move \in IF returned = {} THEN {<<>>} ELSE {<<m>> : m \in returned} :
                 probe' = [ gs |-> probe.gs, called |-> TRUE, noise |-> noise,
                            validMoves |-> validMoves, terms |-> terms,
                            bestMoves |-> IF advanced
                                          THEN BestMoves(validMoves, scores, noise)
                                          ELSE <<>>,
                            move |-> move ]
    /\ last' = [op |-> "aiMove", inst |-> "h", at |-> NoMove, result |-> "none"]
    /\ UNCHANGED <<gameState, lastMove, onlineState, onlineRole, peerService, net, ply,
                   localStorage>>
    /\ Render

\* A call of checkSmallBoardStatus on the cells under test.
CheckStatus ==
    /\ ~probe.checked
    /\ probe' = [probe EXCEPT !.checked = TRUE,
                              !.status = checkSmallBoardStatus(probe.cells)]
    /\ last' = [op |-> "check", inst |-> "h", at |-> NoMove, result |-> "none"]
    /\ UNCHANGED <<gameState, lastMove, onlineState, onlineRole, peerService, net, ply,
                   localStorage>>
    /\ Render

-----------------------------------------------------------------------------
(* Specifications *)

Click == \E p \in Inst : \E bc \in ClickInputs(p) : OnCellClick(p, bc[1], bc[2])

Data == \E p \in Inst : OnData(p)

Ai == \E p \in Inst : AiTimer(p)

Undo == \E p \in Inst : UndoClick(p)

NewGame ==
    \E p \in Inst :
        \/ StartNewGame(p, "PvP", "Beginner")
        \/ \E d \in Difficulties : StartNewGame(p, "PvCPU", d)

Close == \E p \in Inst : ConnClose(p)

Error == \E p \in Inst : ConnError(p)

\* The program with its connection staying up: offline play on "h" and
\* online matches, with undo and new matches.
Next == Click \/ Data \/ Ai \/ Undo \/ NewGame

Spec == Init /\ [][Next]_vars

\* An online match in which only moves are played.
NextOnline == Click \/ Data

SpecOnline == InitOnline /\ [][NextOnline]_vars

\* An online match whose connection can fail.
NextDisc == Click \/ Data \/ Close \/ Error

SpecDisc == InitDisc /\ [][NextDisc]_vars

Host == \E p \in Inst : StartHosting(p)

Join == \E p \in Inst : \E joinId \in JoinIds : JoinGame(p, joinId)

Connection == \E g \in Inst : \E h \in Inst : PeerConnection(g, h)

Open == \E p \in Inst : ConnOpen(p)

PeerErr == \E p \in Inst : PeerError(p)

NewLocalGame == StartNewGame("h", "PvP", "Beginner") \/ StartNewGame("g", "PvP", "Beginner")

\* The online sessions of the two components: hosting, joining, the events
\* of peer and connection, and new local matches.
NextConn == Host \/ Join \/ Connection \/ Open \/ Close \/ Error \/ PeerErr \/ NewLocalGame

SpecConn == InitConn /\ [][NextConn]_vars

\* An online session at its start or under way: one component ran
\* startHosting and the other joinGame, both from the mounted state, and no
\* connection has arrived yet; or the connection is open and a match is
\* played on it.
InitSession ==
    \/ /\ gameState = [p \in Inst |-> Mounted.gameState]
       /\ lastMove = [p \in Inst |-> Mounted.lastMove]
       /\ \E host \in Inst :
            /\ onlineState = [p \in Inst |-> IF p = host THEN startHosting.onlineState
                                            ELSE joinGame.onlineState]
            /\ onlineRole = [p \in Inst |-> IF p = host THEN startHosting.onlineRole
                                           ELSE joinGame.onlineRole]
       /\ peerService = [p \in Inst |-> NoService]
       /\ net = [p \in Inst |-> <<>>]
       /\ InitRest
    \/ InitDisc

\* An online session that is left for local matches: the moves and new
\* matches of the components and the events of connection and peer.
NextSession == Click \/ Data \/ NewGame \/ Close \/ Error \/ PeerErr

SpecSession == InitSession /\ [][NextSession]_vars

Restart == \E p \in Inst : RestartArrives(p)

\* An online match in which RESTART messages arrive between the moves.
NextRestart == Click \/ Data \/ Restart

SpecRestart == InitOnline /\ [][NextRestart]_vars

\* An online match under way, fresh or one move before the end of opening
\* 1, in which the joiner's peer has emitted 'error': handleOnlineError has
\* set the joiner IDLE, which offers "Join" again, and the host is CONNECTED.
InitRejoin ==
    /\ \E n \in {0, 16} :
         LET st == [p \in Inst |->
                      Replay(resetGameState("PvOnline", "Beginner"), Openings[1], 1, n,
                             IF p = "h" THEN startHosting.onlineRole
                                        ELSE joinGame.onlineRole,
                             Mounted.lastMove)]
         IN /\ gameState = [p \in Inst |-> st[p].gameState]
            /\ lastMove = [p \in Inst |-> st[p].lastMove]
    /\ onlineState = [p \in Inst |-> IF p = "h" THEN "CONNECTED" ELSE "IDLE"]
    /\ onlineRole = [p \in Inst |-> IF p = "h" THEN startHosting.onlineRole
                                    ELSE joinGame.onlineRole]
    /\ peerService = [p \in Inst |->
                         [conn |-> "open", onDataRole |-> Null,
                          onDataLastMove |-> Mounted.lastMove]]
    /\ net = [p \in Inst |-> <<>>]
    /\ InitRest

\* The joiner connects anew while the host is CONNECTED.
NextRejoin == Click \/ Data \/ Join \/ Connection \/ Open

SpecRejoin == InitRejoin /\ [][NextRejoin]_vars

Save == \E p \in Inst : SaveClick(p)

Load == \E p \in Inst : LoadClick(p)

\* Matches in which the game is saved and loaded between the moves, undos,
\* restarts and new matches.
NextSave == Click \/ Data \/ Ai \/ Undo \/ NewGame \/ Restart \/ Save \/ Load

SpecSave == Init /\ [][NextSave]_vars

\* getAiMove on the positions of matches against the AI, for every tier.
SpecAiMove == InitAiMove /\ [][CallAiMove]_vars

\* The rules engine's checkSmallBoardStatus on every assignment of nine cells.
SpecStatus == InitStatus /\ [][CheckStatus]_vars

\* The rules engine's checkGlobalWinner on every assignment of nine statuses.
SpecGlobal == InitGlobal /\ [][CheckGlobal]_vars

\* The rules engine's getValidMoves on positions with any forced board.
SpecMoves == InitMoves /\ [][CallValidMoves]_vars

-----------------------------------------------------------------------------
(* Properties of the rules engine *)

\* The combinations of WINNING_COMBINATIONS whose three cells hold the same
\* mark, by their place in the list.
UniformTriples(cells) ==
    {i \in 1 .. Len(WINNING_COMBINATIONS) :
        /\ cells[WINNING_COMBINATIONS[i][1]] # Null
        /\ cells[WINNING_COMBINATIONS[i][1]] = cells[WINNING_COMBINATIONS[i][2]]
        /\ cells[WINNING_COMBINATIONS[i][1]] = cells[WINNING_COMBINATIONS[i][3]]}

\* C10: checkSmallBoardStatus reports a winner exactly when some listed
\* triple is uniformly one non-empty mark, the winner being the mark of the
\* first such triple in the listed order; it reports a draw exactly when
\* all nine cells are non-empty and no triple is uniform; and it never
\* reports a winner and a draw together.
C10_SubBoardStatus ==
    probe.checked =>
      LET cells == probe.cells
          status == probe.status
          lines == UniformTriples(cells)
          first == CHOOSE i \in lines : \A j \in lines : i <= j
      IN /\ status.winner # Null <=> lines # {}
         /\ lines # {} => status.winner = cells[WINNING_COMBINATIONS[first][1]]
         /\ status.isDraw <=> (\A i \in Idx : cells[i] # Null) /\ lines = {}
         /\ ~(status.winner # Null /\ status.isDraw)

\* A full board holding a row of O below a row of X has been checked: the
\* winner is X, the mark of the first uniform triple, and it is no draw.
C10_Witness ==
    /\ probe.checked
    /\ \A i \in Idx : probe.cells[i] # Null
    /\ \A i \in {0, 1, 2} : probe.cells[i] = X
    /\ \A i \in {3, 4, 5} : probe.cells[i] = O
    /\ probe.status = [winner |-> X, isDraw |-> FALSE]

\* The combinations of WINNING_COMBINATIONS whose three boards are won by
\* the mark m.
WonTriples(statuses, m) ==
    {i \in 1 .. Len(WINNING_COMBINATIONS) :
        \A k \in 1 .. 3 : statuses[WINNING_COMBINATIONS[i][k]].winner = m}

\* C11: checkGlobalWinner reports a winner exactly when some listed triple
\* of boards is won by one mark (drawn and undecided boards count for
\* nobody), that mark being the winner when only one mark has such a
\* triple; it reports a draw exactly when no triple is won by one mark and
\* all nine boards are won or drawn; otherwise it reports neither.
C11_GlobalStatus ==
    probe.checked =>
      LET statuses == probe.statuses
          global == probe.global
          anyTriple == WonTriples(statuses, X) \cup WonTriples(statuses, O)
          allDecided == \A i \in Idx : statuses[i].winner # Null \/ statuses[i].isDraw
      IN /\ global.winner # Null <=> anyTriple # {}
         /\ \A m \in {X, O} :
               (WonTriples(statuses, m) # {} /\ WonTriples(statuses, (IF m = X THEN O ELSE X)) = {})
                  => global.winner = m
         /\ global.winner # Null => WonTriples(statuses, global.winner) # {}
         /\ global.isDraw <=> (anyTriple = {} /\ allDecided)
         /\ ~(global.winner # Null /\ global.isDraw)

\* Nine decided boards, some drawn, none of the triples won by one mark:
\* reported as a draw.
C11_Witness ==
    /\ probe.checked
    /\ probe.global = [winner |-> Null, isDraw |-> TRUE]
    /\ \E i \in Idx : probe.statuses[i].isDraw
    /\ \E i \in Idx : probe.statuses[i].winner = X
    /\ \E i \in Idx : probe.statuses[i].winner = O

\* The empty cells of the boards bs of position gs, as moves.
EmptyCellsOf(gs, bs) ==
    { [boardIndex |-> b, cellIndex |-> c] : b \in bs, c \in Idx } \cap
    { m \in [boardIndex : Idx, cellIndex : Idx] : gs.board[m.boardIndex][m.cellIndex] = Null }

\* The boards of position gs that are neither won nor drawn.
UndecidedBoards(gs) ==
    {b \in Idx : gs.smallBoardStatuses[b].winner = Null /\ ~gs.smallBoardStatuses[b].isDraw}

\* C13: getValidMoves returns no move when a global winner exists;
\* otherwise the empty cells of the forced board when one is set and
\* undecided, and the empty cells of all undecided boards when none is set
\* or the one set is decided; each move once, by ascending board and then
\* ascending cell.
C13_ValidMoves ==
    probe.checked =>
      LET gs == probe.gs
          moves == probe.moves
          expected ==
             IF gs.globalWinner # Null THEN {}
             ELSE IF gs.nextBoardIndex # NoIndex /\ gs.nextBoardIndex \in UndecidedBoards(gs)
             THEN EmptyCellsOf(gs, {gs.nextBoardIndex})
             ELSE EmptyCellsOf(gs, UndecidedBoards(gs))
      IN /\ {moves[i] : i \in 1 .. Len(moves)} = expected
         /\ \A i \in 1 .. Len(moves) : \A j \in 1 .. Len(moves) :
               i < j =>
                 \/ moves[i].boardIndex < moves[j].boardIndex
                 \/ /\ moves[i].boardIndex = moves[j].boardIndex
                    /\ moves[i].cellIndex < moves[j].cellIndex

\* No winner, and a forced board that is decided: the empty cells of the
\* undecided boards have been returned, of more than one board.
C13_Witness ==
    /\ probe.checked
    /\ probe.gs.globalWinner = Null
    /\ probe.gs.nextBoardIndex # NoIndex
    /\ probe.gs.nextBoardIndex \notin UndecidedBoards(probe.gs)
    /\ Len(probe.moves) > 1
    /\ probe.moves[1].boardIndex # probe.moves[Len(probe.moves)].boardIndex

-----------------------------------------------------------------------------
(* Properties of an online match *)

\* The fields of a GameState that make up the position of the game.
Position(gs) ==
    [ board              |-> gs.board,
      smallBoardStatuses |-> gs.smallBoardStatuses,
      currentPlayer      |-> gs.currentPlayer,
      nextBoardIndex     |-> gs.nextBoardIndex,
      globalWinner       |-> gs.globalWinner,
      isGlobalDraw       |-> gs.isGlobalDraw,
      moveCount          |-> gs.moveCount ]

\* The handlers that attempt a move: a click, a delivered message, the AI.
MoveOps == {"click", "data", "ai"}

\* The mark of a peer: X for the one that hosted, O for the one that joined.
Mark(p) == IF p = "h" THEN X ELSE O

\* C1: in a match in which only moves are played, whenever no message is in
\* flight both peers hold the same grid, board statuses, turn, forced board,
\* winner, draw flag and move count; in particular once the host's first
\* move (0,4) is applied, a peer holds X at (0,4), forced board 4 and the
\* turn with O.
C1_PeersAgree ==
    /\ (net["h"] = <<>> /\ net["g"] = <<>>) =>
          Position(gameState["h"]) = Position(gameState["g"])
    /\ \A p \in Inst :
          (gameState[p].moveCount = 1 /\ lastMove[p] = <<0, 4>>) =>
             /\ gameState[p].board[0][4] = X
             /\ gameState[p].nextBoardIndex = 4
             /\ gameState[p].currentPlayer = O

\* The host has played (0,4) in a fresh match and the joiner has applied it.
C1_Witness ==
    /\ last.op = "data" /\ last.inst = "g" /\ last.result = "applied"
    /\ net["h"] = <<>> /\ net["g"] = <<>>
    /\ gameState["h"].moveCount = 1
    /\ lastMove["g"] = <<0, 4>>
    /\ gameState["g"].board[0][4] = X

\* C2: a click is applied only when the turn is with the peer's own mark (X
\* on the host, O on the joiner, the roles never changing during the match);
\* a click made on the opponent's turn changes nothing and sends nothing.
C2_TurnOwnership ==
    [][ /\ onlineRole' = onlineRole
        /\ \A p \in Inst :
             (last'.op = "click" /\ last'.inst = p) =>
                /\ last'.result = "applied" => gameState[p].currentPlayer = Mark(p)
                /\ gameState[p].currentPlayer # Mark(p) =>
                      /\ gameState' = gameState
                      /\ lastMove' = lastMove
                      /\ net' = net ]_vars

\* The joiner has clicked a cell while the turn was with X.
C2_Witness ==
    /\ last.op = "click" /\ last.inst = "g" /\ last.result = "ignored"
    /\ gameState["g"].currentPlayer = X
    /\ gameState["g"].moveCount > 0

\* The structural rules of a move at cell c of board b in position gs.
Legal(gs, b, c) ==
    /\ gs.globalWinner = Null
    /\ gs.board[b][c] = Null
    /\ gs.nextBoardIndex = NoIndex \/ gs.nextBoardIndex = b
    /\ ~Decided(gs.smallBoardStatuses[b])

\* C3: a delivered MOVE that is structurally legal is applied whoever's turn
\* it is, puts the receiver in the position the sender reached by playing
\* it, and sends nothing back; every applied click sends exactly one MOVE,
\* carrying its board and cell.
C3_RemoteMoves ==
    [][ \A p \in Inst :
          /\ (last'.op = "data" /\ last'.inst = p /\ last'.at # NoMove) =>
                /\ net' = [net EXCEPT ![p] = Tail(net[p])]
                /\ Legal(gameState[p], last'.at[1], last'.at[2]) =>
                      /\ last'.result = "applied"
                      /\ gameState[p].currentPlayer # Mark(p)
                      /\ gameState'[p].board[last'.at[1]][last'.at[2]]
                            = gameState[p].currentPlayer
                      /\ Position(gameState'[p]) = Position(gameState[Other(p)])
          /\ (last'.op = "click" /\ last'.inst = p /\ last'.result = "applied") =>
                net' = [net EXCEPT ![Other(p)] =
                          Append(@, [type |-> "MOVE",
                                     boardIndex |-> last'.at[1],
                                     cellIndex |-> last'.at[2]])] ]_vars

\* The host has applied a MOVE of the joiner, on O's turn, and no message
\* is in flight after it.
C3_Witness ==
    /\ last.op = "data" /\ last.inst = "h" /\ last.result = "applied"
    /\ gameState["h"].board[last.at[1]][last.at[2]] = O
    /\ net["h"] = <<>> /\ net["g"] = <<>>

\* C4: once a peer is DISCONNECTED, no click and no delivered message
\* changes its GameState.
C4_FrozenAfterDisconnect ==
    [][ \A p \in Inst :
          (onlineState[p] = "DISCONNECTED" /\ last'.inst = p
             /\ last'.op \in {"click", "data"}) =>
                gameState'[p] = gameState[p] ]_vars

-----------------------------------------------------------------------------
(* Properties of the move transition *)

\* A step of instance p that attempts a move, at the cell last'.at.
MoveAttempt(p) ==
    last'.inst = p /\ last'.op \in MoveOps /\ last'.at # NoMove

\* A step of instance p that changes nothing of its game and sends nothing.
NoOp(p) ==
    /\ gameState'[p] = gameState[p]
    /\ lastMove'[p] = lastMove[p]
    /\ net'[Other(p)] = net[Other(p)]

\* C5: a move at a cell that holds a mark, or at a board other than a set
\* forced board, changes nothing of the GameState and sends no message; so
\* no step that attempts a move changes a marked cell, or any board other
\* than a set forced board.
C5_IllegalTargetRejected ==
    [][ \A p \in Inst :
          MoveAttempt(p) =>
            LET gs == gameState[p]
                b == last'.at[1]
                c == last'.at[2]
            IN /\ (gs.board[b][c] # Null
                     \/ (gs.nextBoardIndex # NoIndex /\ gs.nextBoardIndex # b)) => NoOp(p)
               /\ \A bb \in Idx : \A cc \in Idx :
                     gs.board[bb][cc] # Null =>
                        gameState'[p].board[bb][cc] = gs.board[bb][cc]
               /\ \A bb \in Idx :
                     (gs.nextBoardIndex # NoIndex /\ gs.nextBoardIndex # bb) =>
                        gameState'[p].board[bb] = gs.board[bb] ]_vars

\* In an online match a peer whose turn it is, with a forced board set, has
\* clicked a marked cell of another board.
C5_Witness ==
    /\ last.op = "click" /\ last.result = "occupied"
    /\ gameState[last.inst].gameMode = "PvOnline"
    /\ gameState[last.inst].board[last.at[1]][last.at[2]] # Null
    /\ gameState[last.inst].nextBoardIndex # NoIndex
    /\ gameState[last.inst].nextBoardIndex # last.at[1]

\* C6: while a winner is recorded or the game is a draw, no move attempt,
\* whatever its source, changes the state.
C6_TerminalAbsorbing ==
    [][ \A p \in Inst :
          (MoveAttempt(p)
             /\ (gameState[p].globalWinner # Null \/ gameState[p].isGlobalDraw)) =>
                NoOp(p) ]_vars

\* An empty cell has been clicked in a game that ended in a draw.
C6_Witness ==
    /\ last.op = "click" /\ last.result = "boardDecided"
    /\ gameState[last.inst].isGlobalDraw
    /\ gameState[last.inst].globalWinner = Null
    /\ gameState[last.inst].board[last.at[1]][last.at[2]] = Null

\* C7: after an applied move at cell c the forced board is none when board
\* c is won or full in the statuses after the move, and c otherwise.
C7_ForcedBoardAfterMove ==
    [][ \A p \in Inst :
          (MoveAttempt(p) /\ last'.result = "applied") =>
            LET c == last'.at[2]
                after == gameState'[p]
            IN after.nextBoardIndex =
                 IF after.smallBoardStatuses[c].winner # Null
                      \/ after.smallBoardStatuses[c].isDraw
                 THEN NoIndex ELSE c ]_vars

\* X has won board 0 by playing its cell 0: the move that decided the board
\* is the one that would send the opponent to it.
C7_Witness ==
    /\ last.op = "click" /\ last.result = "applied" /\ last.at = <<0, 0>>
    /\ gameState[last.inst].smallBoardStatuses[0].winner = X
    /\ gameState[last.inst].history[Len(gameState[last.inst].history)]
          .smallBoardStatuses[0].winner = Null
    /\ gameState[last.inst].nextBoardIndex = NoIndex

\* C8: in every state, after moves, undos and new matches alike, the forced
\* board is none or the index of a board that is neither won nor full.
C8_ForcedBoardUndecided ==
    \A p \in Inst :
       \/ gameState[p].nextBoardIndex = NoIndex
       \/ /\ gameState[p].nextBoardIndex \in Idx
          /\ gameState[p].smallBoardStatuses[gameState[p].nextBoardIndex].winner = Null
          /\ ~gameState[p].smallBoardStatuses[gameState[p].nextBoardIndex].isDraw

\* A move that won a board has been undone and the forced board is set.
C8_Witness ==
    /\ last.op = "undo" /\ last.result = "undone"
    /\ gameState["h"].nextBoardIndex = 0
    /\ gameState["h"].moveCount = 4

\* The number of marks on a grid.
Marks(board) == Cardinality({bc \in Idx \X Idx : board[bc[1]][bc[2]] # Null})

\* C9: with N marks placed the turn is with X when N is even and with O
\* when N is odd, and moveCount is N; an applied move adds one to moveCount
\* and a rejected one changes neither the turn nor moveCount.
C9_TurnParity ==
    /\ [](\A p \in Inst :
            /\ gameState[p].moveCount = Marks(gameState[p].board)
            /\ gameState[p].currentPlayer =
                  IF gameState[p].moveCount % 2 = 0 THEN X ELSE O)
    /\ [][ \A p \in Inst :
             MoveAttempt(p) =>
               IF last'.result = "applied"
               THEN gameState'[p].moveCount = gameState[p].moveCount + 1
               ELSE /\ gameState'[p].moveCount = gameState[p].moveCount
                    /\ gameState'[p].currentPlayer = gameState[p].currentPlayer ]_vars

\* The seventeenth move has been applied and the turn is with O; and a
\* rejected click after it has left that so.
C9_Witness ==
    /\ last.op = "click" /\ last.result # "applied"
    /\ gameState["h"].moveCount = 17
    /\ gameState["h"].currentPlayer = O
    /\ ply > 0

\* C12: a board that is won or drawn is frozen: no step that attempts a
\* move, on a forced or a free-choice turn, changes one of its cells or its
\* status.
C12_DecidedBoardFrozen ==
    [][ \A p \in Inst :
          MoveAttempt(p) =>
            \A b \in Idx :
               (gameState[p].smallBoardStatuses[b].winner # Null
                  \/ gameState[p].smallBoardStatuses[b].isDraw) =>
                     /\ gameState'[p].board[b] = gameState[p].board[b]
                     /\ gameState'[p].smallBoardStatuses[b]
                           = gameState[p].smallBoardStatuses[b] ]_vars

\* On a free-choice turn of a game still in progress, an empty cell of a
\* won board has been clicked.
C12_Witness ==
    /\ last.op = "click" /\ last.result = "boardDecided"
    /\ gameState[last.inst].nextBoardIndex = NoIndex
    /\ gameState[last.inst].globalWinner = Null
    /\ ~gameState[last.inst].isGlobalDraw
    /\ gameState[last.inst].board[last.at[1]][last.at[2]] = Null
    /\ gameState[last.inst].smallBoardStatuses[last.at[1]].winner # Null

-----------------------------------------------------------------------------
(* The AI player *)

\* The mark m, put on the empty cell c of cells, completes a line of three.
CompletesLine(cells, c, m) ==
    /\ cells[c] = Null
    /\ \E i \in 1 .. Len(WINNING_COMBINATIONS) :
         /\ c \in {WINNING_COMBINATIONS[i][k] : k \in 1 .. 3}
         /\ \A k \in 1 .. 3 :
              WINNING_COMBINATIONS[i][k] # c => cells[WINNING_COMBINATIONS[i][k]] = m

\* The legal moves of gs on a cell with which the mark m completes a line of
\* its board.
LineMoves(gs, m) ==
    {mv \in SeqRange(getValidMoves(gs)) :
        CompletesLine(gs.board[mv.boardIndex], mv.cellIndex, m)}

\* The mark that is not to move in gs.
Opponent(gs) == IF gs.currentPlayer = X THEN O ELSE X

\* C14: the Intermediate tier returns a move that wins its board whenever
\* some legal move does, and, when none does but some legal move takes a
\* cell with which the opponent would win that board, returns such a move;
\* whatever the number of such cells.
C14_IntermediateWinsOrBlocks ==
    (probe.called /\ probe.gs.aiDifficulty = "Intermediate") =>
      LET wins == LineMoves(probe.gs, probe.gs.currentPlayer)
          blocks == LineMoves(probe.gs, Opponent(probe.gs))
      IN /\ wins # {} => probe.move # <<>> /\ probe.move[1] \in wins
         /\ (wins = {} /\ blocks # {}) => probe.move # <<>> /\ probe.move[1] \in blocks

\* The Intermediate tier was called where no move wins a board and two
\* cells of one board would win it for the opponent, and returned one of
\* the two.
C14_Witness ==
    /\ probe.called
    /\ probe.gs.aiDifficulty = "Intermediate"
    /\ LineMoves(probe.gs, probe.gs.currentPlayer) = {}
    /\ \E m1, m2 \in LineMoves(probe.gs, Opponent(probe.gs)) :
         m1 # m2 /\ m1.boardIndex = m2.boardIndex
    /\ probe.move # <<>>
    /\ probe.move[1] \in LineMoves(probe.gs, Opponent(probe.gs))

\* The Intermediate tier was called where two cells of one board win it for
\* the mover, and returned one of the two.
C14_WitnessWins ==
    /\ probe.called
    /\ probe.gs.aiDifficulty = "Intermediate"
    /\ \E m1, m2 \in LineMoves(probe.gs, probe.gs.currentPlayer) :
         m1 # m2 /\ m1.boardIndex = m2.boardIndex
    /\ probe.move # <<>>
    /\ probe.move[1] \in LineMoves(probe.gs, probe.gs.currentPlayer)

\* The positions k of probe.validMoves holding the move to cell 4 of board 4
\* where it completes a line of board 4 for the mover and board 4, won by
\* the mover, completes a line of three boards won by the mover.
CentreWins ==
    {k \in 1 .. Len(probe.validMoves) :
        /\ probe.validMoves[k] = [boardIndex |-> 4, cellIndex |-> 4]
        /\ CompletesLine(probe.gs.board[4], 4, probe.gs.currentPlayer)
        /\ WonTriples([probe.gs.smallBoardStatuses EXCEPT
                         ![4] = [winner |-> probe.gs.currentPlayer, isDraw |-> FALSE]],
                      probe.gs.currentPlayer) # {}}

\* The cells of board b with which the opponent of the mover would complete
\* a line of it.
OpponentWinCells(gs, b) ==
    {c \in Idx : CompletesLine(gs.board[b], c, Opponent(gs))}

\* C15 as stated: wherever the move to (4,4) wins board 4 and with it the
\* game, its score before noise is 100 + 10000 + 20 + 5 = 10125.
C15_CentreWinScore ==
    (probe.called /\ probe.gs.aiDifficulty = "Advanced") =>
      \A k \in CentreWins : probe.terms[k].score = 10125

\* C15, amended: wherever the move to (4,4) wins board 4 and with it the
\* game, and the opponent has no cell of board 4 with which it would win
\* that board, the score of the move before noise is 10125.
C15_CentreWinScoreNoThreat ==
    (probe.called /\ probe.gs.aiDifficulty = "Advanced") =>
      \A k \in CentreWins :
         OpponentWinCells(probe.gs, 4) = {} => probe.terms[k].score = 10125

\* The Advanced tier scored the move to (4,4) where it wins board 4 and the
\* game and the opponent has no winning cell in board 4: win term 10120,
\* cell term 5.
C15_Witness ==
    /\ probe.called
    /\ probe.gs.aiDifficulty = "Advanced"
    /\ \E k \in CentreWins :
         /\ OpponentWinCells(probe.gs, 4) = {}
         /\ probe.terms[k].win = 10120
         /\ probe.terms[k].cell = 5
         /\ probe.terms[k].score = 10125

\* C16: the score of a legal move holds the block term of 80 exactly when
\* its cell is one with which the opponent would complete a line of the
\* board moved in, as that board is before the move; whether the mover wins
\* the board with it plays no part.
C16_BlockTerm ==
    (probe.called /\ probe.gs.aiDifficulty = "Advanced") =>
      \A k \in 1 .. Len(probe.validMoves) :
         /\ probe.terms[k].block \in {0, 80}
         /\ probe.terms[k].block = 80 <=>
              probe.validMoves[k].cellIndex
                \in OpponentWinCells(probe.gs, probe.validMoves[k].boardIndex)
         /\ probe.terms[k].score =
              probe.terms[k].win + probe.terms[k].block
                + probe.terms[k].dest + probe.terms[k].cell

\* C17: the destination term of a legal move is taken from the board its
\* cell index names, as that board is before the move: -50 exactly when the
\* board is won or drawn, -100 exactly when it is undecided and the opponent
\* has a cell with which it would complete a line of it, and 0 otherwise.
C17_DestinationTerm ==
    (probe.called /\ probe.gs.aiDifficulty = "Advanced") =>
      \A k \in 1 .. Len(probe.validMoves) :
         LET dest == probe.validMoves[k].cellIndex
             decided == \/ probe.gs.smallBoardStatuses[dest].winner # Null
                        \/ probe.gs.smallBoardStatuses[dest].isDraw
             threat == OpponentWinCells(probe.gs, dest) # {}
         IN /\ probe.terms[k].dest \in {-50, -100, 0}
            /\ probe.terms[k].dest = -50 <=> decided
            /\ probe.terms[k].dest = -100 <=> (~decided /\ threat)

\* The Advanced tier scored a move that wins the very board it sends the
\* opponent to, in which the opponent had a winning cell before the move:
\* -100, the board being undecided before the move.
C17_Witness ==
    /\ probe.called
    /\ probe.gs.aiDifficulty = "Advanced"
    /\ \E k \in 1 .. Len(probe.validMoves) :
         /\ probe.validMoves[k].boardIndex = probe.validMoves[k].cellIndex
         /\ probe.terms[k].win > 0
         /\ OpponentWinCells(probe.gs, probe.validMoves[k].cellIndex) # {}
         /\ probe.terms[k].dest = -100

\* The Advanced tier scored, in one call, a move into a board already won
\* (-50), a move into an undecided board with a winning cell of the
\* opponent (-100) and a move into an undecided board without one (0).
C17_WitnessAllTerms ==
    /\ probe.called
    /\ probe.gs.aiDifficulty = "Advanced"
    /\ \E k \in 1 .. Len(probe.validMoves) :
         /\ probe.gs.smallBoardStatuses[probe.validMoves[k].cellIndex].winner # Null
         /\ probe.terms[k].dest = -50
    /\ \E k \in 1 .. Len(probe.validMoves) : probe.terms[k].dest = -100
    /\ \E k \in 1 .. Len(probe.validMoves) : probe.terms[k].dest = 0

\* The score of probe.validMoves[k] with its noise, in hundredths.
Noisy(k) == 100 * probe.terms[k].score + probe.noise[k]

\* C18: the moves the Advanced tier picks from are exactly the legal moves
\* whose score with noise is less than 0.1 below the greatest score with
\* noise of all legal moves, wherever they stand in the enumeration.
C18_Candidates ==
    (probe.called /\ probe.gs.aiDifficulty = "Advanced" /\ Len(probe.validMoves) > 0) =>
      LET top == CHOOSE k \in 1 .. Len(probe.validMoves) :
                    \A j \in 1 .. Len(probe.validMoves) : Noisy(j) <= Noisy(k)
      IN SeqRange(probe.bestMoves)
           = {probe.validMoves[k] : k \in {j \in 1 .. Len(probe.validMoves) :
                                              Noisy(top) - Noisy(j) < 10}}

\* After X's first move to (4,4) the Advanced tier scored the four corners
\* of board 4 at 3 each and drew the noise 0.05 for (4,2) and 0 for the
\* others: it picks among (4,2), (4,6) and (4,8), without (4,0).
C18_EarlierMoveDropped ==
    /\ probe.called
    /\ probe.gs.aiDifficulty = "Advanced"
    /\ probe.gs.moveCount = 1
    /\ probe.gs.board[4][4] = X
    /\ probe.noise = [k \in 1 .. 8 |-> IF k = 3 THEN 5 ELSE 0]
    /\ \A k \in {1, 3, 6, 8} : probe.terms[k].score = 3
    /\ probe.bestMoves = << [boardIndex |-> 4, cellIndex |-> 2],
                            [boardIndex |-> 4, cellIndex |-> 6],
                            [boardIndex |-> 4, cellIndex |-> 8] >>

\* The legal moves of position gs: none once the game has a winner; the
\* empty cells of the forced board if it is undecided, of all undecided
\* boards otherwise.
LegalMoveSet(gs) ==
    IF gs.globalWinner # Null THEN {}
    ELSE IF gs.nextBoardIndex # NoIndex /\ gs.nextBoardIndex \in UndecidedBoards(gs)
    THEN EmptyCellsOf(gs, {gs.nextBoardIndex})
    ELSE EmptyCellsOf(gs, UndecidedBoards(gs))

\* C19: a call of getAiMove, of any tier, returns null exactly when the
\* state it is given has no legal move, returns a legal move of that state
\* otherwise, and leaves the state it was given as it was.
C19_AiMoveReturn ==
    [][ (~probe.called /\ probe'.called) =>
          /\ probe'.move = <<>> <=> LegalMoveSet(probe.gs) = {}
          /\ probe'.move # <<>> => probe'.move[1] \in LegalMoveSet(probe.gs)
          /\ probe'.gs = probe.gs ]_vars

\* The Advanced tier was called on a position the AI has won, which has
\* empty cells in undecided boards, and returned null.
C19_Witness ==
    /\ probe.called
    /\ probe.gs.aiDifficulty = "Advanced"
    /\ probe.gs.globalWinner = O
    /\ EmptyCellsOf(probe.gs, UndecidedBoards(probe.gs)) # {}
    /\ probe.move = <<>>

\* The Beginner tier was called where O may play in any undecided board and
\* returned a move outside the board the last move pointed to.
C19_WitnessFreeChoice ==
    /\ probe.called
    /\ probe.gs.aiDifficulty = "Beginner"
    /\ probe.gs.nextBoardIndex = NoIndex
    /\ probe.gs.moveCount > 0
    /\ probe.move # <<>>
    /\ probe.move[1] \in LegalMoveSet(probe.gs)

-----------------------------------------------------------------------------
(* The online session *)

\* A change of onlineState of instance p that the connection life cycle
\* allows: to HOSTING or JOINING by the user starting to host or to join;
\* from HOSTING or JOINING to CONNECTED by the connection opening; from
\* CONNECTED to DISCONNECTED by the connection closing or failing; from any
\* state to IDLE by the user starting a match that is not online.
AllowedChange(p) ==
    \/ /\ onlineState'[p] \in {"HOSTING", "JOINING"}
       /\ last'.inst = p
       /\ last'.op \in {"startHosting", "joinGame"}
    \/ /\ onlineState[p] \in {"HOSTING", "JOINING"}
       /\ onlineState'[p] = "CONNECTED"
       /\ last'.inst = p
       /\ last'.op = "open"
    \/ /\ onlineState[p] = "CONNECTED"
       /\ onlineState'[p] = "DISCONNECTED"
       /\ last'.inst = p
       /\ last'.op \in {"close", "error"}
    \/ /\ onlineState'[p] = "IDLE"
       /\ last'.inst = p
       /\ last'.op = "newGame"
       /\ last'.result # "PvOnline"

\* C20: onlineState changes only by an allowed change; in particular
\* DISCONNECTED becomes CONNECTED only by way of HOSTING or JOINING, which
\* the user of the instance has to start.
C20_ConnectionTransitions ==
    [][\A p \in Inst : onlineState'[p] # onlineState[p] => AllowedChange(p)]_vars

\* The part of C20 on reconnection alone: no step takes an instance from
\* DISCONNECTED to CONNECTED.
C20_NoReconnection ==
    [][\A p \in Inst : ~(onlineState[p] = "DISCONNECTED" /\ onlineState'[p] = "CONNECTED")]_vars

\* gs is the GameState of a match not yet begun: all cells empty, all
\* boards undecided, X to move in any board, neither winner nor draw, no
\* move counted and none recorded.
IsFresh(gs) ==
    /\ \A b \in Idx : \A c \in Idx : gs.board[b][c] = Null
    /\ \A b \in Idx : gs.smallBoardStatuses[b] = [winner |-> Null, isDraw |-> FALSE]
    /\ gs.currentPlayer = X
    /\ gs.nextBoardIndex = NoIndex
    /\ gs.globalWinner = Null
    /\ ~gs.isGlobalDraw
    /\ gs.moveCount = 0
    /\ gs.history = <<>>

\* Instance p is in no online session: IDLE, without role, without
\* connection.
TornDown(p) ==
    /\ onlineState[p] = "IDLE"
    /\ onlineRole[p] = Null
    /\ peerService[p].conn = "none"

\* C21: a new match in a mode that is not online, started in whatever
\* state the session is in, leaves the instance without connection, IDLE,
\* without role and with the fresh GameState of that mode; from then on
\* onlineState changes only by the user hosting or joining, and gameState
\* only by the instance's own clicks, AI moves, undos and new matches, so
\* that no event of connection or peer alters either.
C21_NewLocalMatch ==
    [][\A p \in Inst :
         /\ (last'.op = "newGame" /\ last'.inst = p /\ last'.result # "PvOnline") =>
              /\ peerService'[p].conn = "none"
              /\ onlineState'[p] = "IDLE"
              /\ onlineRole'[p] = Null
              /\ IsFresh(gameState'[p])
              /\ gameState'[p].gameMode = last'.result
              /\ lastMove'[p] = NoMove
         /\ TornDown(p) =>
              /\ ~(last'.inst = p /\ last'.op \in {"startHosting", "joinGame"})
                   => (onlineState'[p] = "IDLE" /\ peerService'[p].conn = "none")
              /\ gameState'[p] # gameState[p] =>
                   (last'.inst = p /\ last'.op \in {"click", "ai", "undo", "newGame"})
      ]_vars

\* An instance has just started a new local match while the other one
\* still holds the open connection of their online match.
C21_Witness ==
    /\ last.op = "newGame"
    /\ \E p \in Inst :
         /\ last.inst = p
         /\ TornDown(p)
         /\ IsFresh(gameState[p])
         /\ onlineState[Other(p)] = "CONNECTED"
         /\ peerService[Other(p)].conn = "open"

\* An instance plays a local match while a MOVE of its former opponent is
\* in flight to it.
C21_WitnessInFlight ==
    \E p \in Inst :
       /\ TornDown(p)
       /\ gameState[p].gameMode = "PvP"
       /\ net[p] # <<>>

\* C22: handling a RESTART leaves the instance with the fresh GameState in
\* mode PvOnline, leaves its role and onlineState as they were, and sends
\* nothing.
C22_RestartReceived ==
    [][\A p \in Inst :
         (last'.op = "data" /\ last'.inst = p /\ last'.result = "restart") =>
            /\ IsFresh(gameState'[p])
            /\ gameState'[p].gameMode = "PvOnline"
            /\ onlineRole'[p] = onlineRole[p]
            /\ myPlayer(onlineRole'[p]) = myPlayer(onlineRole[p])
            /\ onlineState'[p] = onlineState[p]
            /\ net'[Other(p)] = net[Other(p)]
      ]_vars

\* An instance has just handled a RESTART in a match in which moves had
\* been played: it is at the fresh state while its peer is not.
C22_Witness ==
    /\ last.op = "data"
    /\ last.result = "restart"
    /\ IsFresh(gameState[last.inst])
    /\ gameState[Other(last.inst)].moveCount > 0
    /\ onlineState[last.inst] = "CONNECTED"
    /\ onlineRole[last.inst] # Null

-----------------------------------------------------------------------------
(* Undo *)

\* The number of history records an undo of position gs takes back: the
\* user's move and the AI's answer when the user is to move against the AI,
\* one move otherwise.
StepsToUndo(gs) == IF gs.gameMode = "PvCPU" /\ gs.currentPlayer = X THEN 2 ELSE 1

C23_WitnessNoHistory ==
    /\ last.op = "undo"
    /\ last.result = "noHistory"
    /\ gameState[last.inst].gameMode # "PvOnline"
    /\ gameState[last.inst].history = <<>>

-----------------------------------------------------------------------------
(* Saved games *)

\* The fields of a game state that a save is said to restore.
SavedFields(gs) ==
    <<gs.board, gs.smallBoardStatuses, gs.currentPlayer, gs.nextBoardIndex,
      gs.globalWinner, gs.isGlobalDraw, gs.moveCount, gs.gameMode, gs.aiDifficulty>>

\* C24: a load of a saved game, whatever was played since the save, puts
\* the boards, the statuses, the turn, the forced board, the winner, the
\* draw flag, the move count, the mode, the difficulty and the last move
\* back to their values at the time of the save, and leaves the history
\* empty.
C24_LoadRestoresSave ==
    [][ \A p \in Inst :
          last'.op = "load" /\ last'.inst = p /\ last'.result # "noSave" =>
              /\ probe.saved[p] # <<>>
              /\ SavedFields(gameState'[p]) = SavedFields(probe.saved[p][1].gameState)
              /\ lastMove'[p] = probe.saved[p][1].lastMove
              /\ gameState'[p].history = <<>>
              /\ undoMove(gameState'[p], lastMove'[p]).result = "noHistory" ]_vars

\* A save of a match in which a move was played is loaded after another move.
C24_Witness ==
    \E p \in Inst :
        /\ last.op = "load" /\ last.inst = p /\ last.result # "noSave"
        /\ probe.saved[p][1].lastMove # NoMove
        /\ ply > 0

\* The same without the last move: what a load does put back.
C24_LoadRestoresGameState ==
    [][ \A p \in Inst :
          last'.op = "load" /\ last'.inst = p /\ last'.result # "noSave" =>
              /\ probe.saved[p] # <<>>
              /\ SavedFields(gameState'[p]) = SavedFields(probe.saved[p][1].gameState)
              /\ probe.saved[p][1].lastMove # NoMove =>
                     lastMove'[p] = probe.saved[p][1].lastMove
              /\ gameState'[p].history = <<>>
              /\ undoMove(gameState'[p], lastMove'[p]).result = "noHistory" ]_vars

\* Instance p shows a game loaded from a save of an online match: loadGame
\* spreads the parsed save, lastMoveState included, into gameState, and
\* only resetGameState takes that key out again.
LoadedOnline(p) ==
    /\ "lastMoveState" \in DOMAIN gameState[p]
    /\ gameState[p].gameMode = "PvOnline"

\* The load of a save of an online match by p leaves the connection state,
\* the role, the channel and the messages in flight as they are.
LoadOpensNoChannel(p) ==
    last'.op = "load" /\ last'.inst = p /\ last'.result = "localAnalysis" =>
        /\ onlineState' = onlineState
        /\ onlineRole' = onlineRole
        /\ peerService' = peerService
        /\ net' = net

\* C25: the load of a save whose mode is online opens no channel and leaves
\* the connection state unchanged, and no message is sent by the load nor
\* by any later click on a cell of the loaded game.
C25_OnlineLoadSendsNothing ==
    [][ \A p \in Inst :
          /\ LoadOpensNoChannel(p)
          /\ LoadedOnline(p) /\ last'.op = "click" /\ last'.inst = p => net' = net ]_vars

\* The part of it about the load itself.
C25_LoadOpensNoChannel ==
    [][ \A p \in Inst : LoadOpensNoChannel(p) ]_vars

\* A save of an online match was loaded by a connected instance.
C25_WitnessConnected ==
    \E p \in Inst :
        /\ last.op = "load" /\ last.inst = p /\ last.result = "localAnalysis"
        /\ onlineState[p] = "CONNECTED"

-----------------------------------------------------------------------------
(* Restart of an online match *)

\* Instance p, CONNECTED, runs startNewGame('PvOnline'): the only callers
\* are the onConnect callbacks.
RestartsWhileConnected(p) ==
    last'.op = "open" /\ last'.inst = p /\ onlineState[p] = "CONNECTED"

\* Both instances are connected and no message is in flight.
Delivered ==
    \A p \in Inst : /\ onlineState[p] = "CONNECTED"
                    /\ peerService[p].conn = "open"
                    /\ net[p] = <<>>

C26_SameGameOnceDelivered ==
    Delivered => SavedFields(gameState["h"]) = SavedFields(gameState["g"])

\* A connected instance has restarted the match and a move was played since.
C26_WitnessRestarted ==
    /\ Delivered
    /\ \E p \in Inst : gameState[p].moveCount = 1 /\ ply > 0
    /\ last.op = "data"

-----------------------------------------------------------------------------
(* Moves and undos of a match on one screen *)

\* The boards, the statuses, the turn and the forced board of a game state
\* or of a history record.
Restorable(r) == <<r.board, r.smallBoardStatuses, r.currentPlayer, r.nextBoardIndex>>

\* Instance p, in a PvP match, accepts a click.
PvPMove(p) ==
    /\ gameState[p].gameMode = "PvP"
    /\ last'.op = "click" /\ last'.inst = p /\ last'.result = "applied"

\* Instance p, in a PvP match, undoes a move.
PvPUndo(p) ==
    /\ gameState[p].gameMode = "PvP"
    /\ last'.op = "undo" /\ last'.inst = p /\ last'.result = "undone"

\* C27: in a PvP match every accepted move appends exactly one history
\* record, which holds the boards, the statuses, the turn and the forced
\* board from before the move; a successful undo puts the last record's
\* boards, statuses, turn and forced board back, clears the winner and the
\* draw flag, lowers the move count by one and removes exactly the last
\* record, so that a move followed by an undo restores the position.
C27_MoveThenUndo ==
    [][ \A p \in Inst :
          /\ PvPMove(p) =>
               /\ Len(gameState'[p].history) = Len(gameState[p].history) + 1
               /\ SubSeq(gameState'[p].history, 1, Len(gameState[p].history))
                      = gameState[p].history
               /\ Restorable(gameState'[p].history[Len(gameState'[p].history)])
                      = Restorable(gameState[p])
          /\ PvPUndo(p) =>
               /\ Restorable(gameState'[p])
                      = Restorable(gameState[p].history[Len(gameState[p].history)])
               /\ gameState'[p].globalWinner = Null
               /\ ~gameState'[p].isGlobalDraw
               /\ gameState'[p].moveCount = gameState[p].moveCount - 1
               /\ gameState'[p].history
                      = SubSeq(gameState[p].history, 1, Len(gameState[p].history) - 1)
      ]_vars

\* The first move of a PvP match was played and undone.
C27_Witness ==
    /\ last.op = "undo" /\ last.result = "undone"
    /\ gameState[last.inst].gameMode = "PvP"
    /\ gameState[last.inst].moveCount = 0
    /\ ply = 2

\* A move played after sixteen recorded moves was undone.
C27_WitnessLateUndone ==
    /\ last.op = "undo" /\ last.result = "undone"
    /\ gameState[last.inst].gameMode = "PvP"
    /\ gameState[last.inst].moveCount = 16
    /\ ply = 2

-----------------------------------------------------------------------------
(* Legal moves *)

\* The cells on which handleCellClick applies a local move in gs.
Accepted(gs) ==
    {bc \in Idx \X Idx : Validation(gs, Null, bc[1], bc[2], FALSE) = "applied"}

\* The cells getValidMoves returns for gs.
Returned(gs) ==
    LET validMoves == getValidMoves(gs)
    IN {<<validMoves[i].boardIndex, validMoves[i].cellIndex>> : i \in DOMAIN validMoves}

\* Instance p shows a local match.
Local(p) == gameState[p].gameMode \in {"PvP", "PvCPU"}

\* C28: in every state of a local match the moves handleCellClick accepts
\* are exactly the moves getValidMoves returns.
C28_AcceptedIsLegal ==
    \A p \in Inst : Local(p) => Accepted(gameState[p]) = Returned(gameState[p])

\* After a move of a local match the player is sent to one board, or, the
\* board of the cell being decided, to any board; or the match is won.
C28_Witness ==
    /\ last.op \in {"click", "ai"} /\ last.result = "applied"
    /\ Local(last.inst)
    /\ gameState[last.inst].nextBoardIndex # NoIndex
    /\ Cardinality(Accepted(gameState[last.inst])) \in 1 .. 9

C28_WitnessAnyBoard ==
    /\ last.op = "click" /\ last.result = "applied"
    /\ Local(last.inst)
    /\ gameState[last.inst].nextBoardIndex = NoIndex
    /\ \E b \in Idx : Decided(gameState[last.inst].smallBoardStatuses[b])
    /\ Cardinality(Accepted(gameState[last.inst])) > 9

C28_WitnessWon ==
    /\ last.op = "click" /\ last.result = "applied"
    /\ Local(last.inst)
    /\ gameState[last.inst].globalWinner # Null
    /\ Accepted(gameState[last.inst]) = {}

\* The match of instance p is over: won or drawn.
Terminal(p) == gameState[p].globalWinner # Null \/ gameState[p].isGlobalDraw

\* C29: in every state in which the match is neither won nor drawn,
\* getValidMoves returns at least one move.
C29_LegalMoveExists ==
    \A p \in Inst : ~Terminal(p) => getValidMoves(gameState[p]) # <<>>

\* One empty cell is left in the only undecided board.
C29_Witness ==
    \E p \in Inst :
        /\ ~Terminal(p)
        /\ Len(getValidMoves(gameState[p])) = 1
        /\ Cardinality({b \in Idx : ~Decided(gameState[p].smallBoardStatuses[b])}) = 1

\* The move that ended a match was undone.
C29_WitnessUndone ==
    /\ last.op = "undo" /\ last.result = "undone"
    /\ ~Terminal(last.inst)
    /\ gameState[last.inst].moveCount \in {16, 42}
    /\ ply = 1

-----------------------------------------------------------------------------
(* Stored statuses *)

\* C30: in every state reached by moves, undos, restarts, new matches and
\* loads of saved games, the stored status of each board is what
\* checkSmallBoardStatus returns for its cells, and the stored winner and
\* draw flag are what checkGlobalWinner returns for the stored statuses.
C30_StoredStatuses ==
    \A p \in Inst :
        /\ \A b \in Idx :
             gameState[p].smallBoardStatuses[b] = checkSmallBoardStatus(gameState[p].board[b])
        /\ [winner |-> gameState[p].globalWinner, isDraw |-> gameState[p].isGlobalDraw]
               = checkGlobalWinner(gameState[p].smallBoardStatuses)

\* A saved game that is won was loaded.
C30_Witness ==
    /\ last.op = "load" /\ last.result # "noSave"
    /\ gameState[last.inst].globalWinner # Null
    /\ ply = 2

\* The move that won a match was undone.
C30_WitnessUndone ==
    /\ last.op = "undo" /\ last.result = "undone"
    /\ gameState[last.inst].moveCount = 16
    /\ ply = 1

\* A RESTART was handled in a match with decided boards.
C30_WitnessRestart ==
    /\ last.op = "data" /\ last.result = "restart"
    /\ IsFresh(gameState[last.inst])
    /\ \E b \in Idx : Decided(gameState[Other(last.inst)].smallBoardStatuses[b])

-----------------------------------------------------------------------------
(* The AI player: moves that win the game *)

\* The legal moves of gs with which the mover completes a line of the board
\* moved in and, that board won, a line of three boards.
GameWinningMoves(gs) ==
    {mv \in LineMoves(gs, gs.currentPlayer) :
        WonTriples([gs.smallBoardStatuses EXCEPT
                      ![mv.boardIndex] = [winner |-> gs.currentPlayer, isDraw |-> FALSE]],
                   gs.currentPlayer) # {}}

\* C31: whenever some legal move wins the game for the mover, the Advanced
\* tier returns a move that does, whatever noise is drawn for the scores and
\* whichever of bestMoves is picked.
C31_AdvancedTakesTheGame ==
    (probe.called /\ probe.gs.aiDifficulty = "Advanced"
                  /\ GameWinningMoves(probe.gs) # {}) =>
        /\ probe.move # <<>>
        /\ probe.move[1] \in GameWinningMoves(probe.gs)

\* The Advanced tier was called where a move wins the game and an earlier
\* legal move, which does not, drew the largest noise.
C31_Witness ==
    /\ probe.called
    /\ probe.gs.aiDifficulty = "Advanced"
    /\ GameWinningMoves(probe.gs) # {}
    /\ \E k \in 1 .. Len(probe.validMoves) :
         /\ probe.validMoves[k] \notin GameWinningMoves(probe.gs)
         /\ probe.noise[k] = 495
         /\ \E j \in k + 1 .. Len(probe.validMoves) :
              probe.validMoves[j] \in GameWinningMoves(probe.gs)

-----------------------------------------------------------------------------
(* Messages in flight *)

\* C32: in a connected online match in which only moves are played, at most
\* one MOVE is in flight over both directions together, and a peer whose
\* own state gives the turn to its own mark has no undelivered MOVE.
C32_OneMoveInFlight ==
    /\ Len(net["h"]) + Len(net["g"]) <= 1
    /\ \A p \in Inst :
         gameState[p].currentPlayer = myPlayer(onlineRole[p]) => net[p] = <<>>

\* The joiner has answered the host's move and its MOVE is still in flight:
\* the host, to whom it is addressed, still has the turn with O.
C32_Witness ==
    /\ last.op = "click" /\ last.inst = "g" /\ last.result = "applied"
    /\ Len(net["h"]) = 1 /\ net["h"][1].type = "MOVE"
    /\ net["g"] = <<>>
    /\ gameState["h"].currentPlayer = O
    /\ gameState["g"].currentPlayer = X
    /\ ply = 2

-----------------------------------------------------------------------------
(* Undo against the AI *)

\* Instance p, in a match against the AI, undoes.
PvCPUUndo(p) ==
    /\ gameState[p].gameMode = "PvCPU"
    /\ last'.op = "undo" /\ last'.inst = p /\ last'.result = "undone"

\* C33: against the AI every successful undo leaves X, the human, to move:
\* it takes back two moves when X is to move and one when O is, lowers the
\* move count by the number of moves taken back, and leaves it at 0 or more.
C33_UndoAgainstAi ==
    [][ \A p \in Inst :
          PvCPUUndo(p) =>
            LET n == IF gameState[p].currentPlayer = X THEN 2 ELSE 1
                history == gameState[p].history
            IN /\ gameState'[p].currentPlayer = X
               /\ Len(history) >= n
               /\ gameState'[p].history = SubSeq(history, 1, Len(history) - n)
               /\ Restorable(gameState'[p]) = Restorable(history[Len(history) - n + 1])
               /\ gameState'[p].moveCount = gameState[p].moveCount - n
               /\ gameState'[p].moveCount >= 0
      ]_vars

\* Against the AI, after fourteen moves and with X to move, undo took back
\* two moves.
C33_Witness ==
    /\ last.op = "undo" /\ last.result = "undone"
    /\ gameState[last.inst].gameMode = "PvCPU"
    /\ gameState[last.inst].moveCount = 12
    /\ ply = 1

\* Against the AI, X played the first move and took it back before the AI
\* answered.
C33_WitnessOneMove ==
    /\ last.op = "undo" /\ last.result = "undone"
    /\ gameState[last.inst].gameMode = "PvCPU"
    /\ gameState[last.inst].moveCount = 0
    /\ ply = 2

-----------------------------------------------------------------------------
(* The AI's timer *)

\* C34: against the AI a move of the AI is scheduled only when O is to move
\* in a match neither won nor drawn, and a pending one was computed for the
\* gameState of the moment: every change of it (an undo, a new match, a
\* load, another move) cancels it.  So the timer, when it fires, applies a
\* move that getAiMove returns for the state it is applied to, and the mark
\* placed is O.
C34_AiMoveNeverStale ==
    /\ [](\A p \in Inst :
            aiTimer[p] # <<>> =>
               /\ aiTimer[p][1] = gameState[p]
               /\ gameState[p].gameMode = "PvCPU"
               /\ gameState[p].currentPlayer = O
               /\ gameState[p].globalWinner = Null
               /\ ~gameState[p].isGlobalDraw)
    /\ [][ \A p \in Inst :
             (last'.op = "ai" /\ last'.inst = p) =>
                /\ last'.result = "applied"
                /\ [boardIndex |-> last'.at[1], cellIndex |-> last'.at[2]]
                       \in getAiMove(gameState[p])
                /\ gameState[p].board[last'.at[1]][last'.at[2]] = Null
                /\ gameState'[p].board[last'.at[1]][last'.at[2]] = O
         ]_vars

\* X played the first move against the AI and took it back while the AI's
\* move was pending: no timer is left.
C34_Witness ==
    /\ last.op = "undo" /\ last.result = "undone"
    /\ gameState[last.inst].gameMode = "PvCPU"
    /\ gameState[last.inst].moveCount = 0
    /\ ply = 2
    /\ aiTimer[last.inst] = <<>>

\* A game saved with O to move was loaded: a timer is pending for the loaded
\* position.
C34_WitnessLoad ==
    /\ last.op = "load" /\ last.result = "loaded"
    /\ aiTimer[last.inst] = <<gameState[last.inst]>>
    /\ gameState[last.inst].history = <<>>

\* The timer fired and the AI's move was applied.
C34_WitnessApplied ==
    /\ last.op = "ai" /\ last.result = "applied"
    /\ gameState[last.inst].currentPlayer = X
    /\ aiTimer[last.inst] = <<>>

=============================================================================
